---- MODULE Spec2Model ----
(***************************************************************************)
(* gitdash: the navigation substrate of the terminal dashboard.            *)
(*                                                                         *)
(* The Bubble Tea program is one event loop: App.Update handles one        *)
(* message at a time.  Every action below is one handled message (a key,   *)
(* a resize, or the completion message of an asynchronous command).        *)
(* Panels (dashboard.Model, conductorpane.Model, graphpane.Model) are      *)
(* records; their methods are operators from record to record.             *)
(*                                                                         *)
(* Indices are 0-based as in the Go source; a Go slice s is a TLA+         *)
(* sequence and s[i] is written At(s, i).  Go strings that the code takes  *)
(* apart (file paths) are sequences of byte values.                        *)
(***************************************************************************)
EXTENDS Integers, Sequences, FiniteSets, TLC

VARIABLES
    cfg,            \* config.Config: Projects, Display
    dashboard,      \* dashboard.Model
    conductorPane,  \* conductorpane.Model
    graphPane,      \* graphpane.Model
    featureLinker,  \* featurelinker.Model
    commitView,     \* commitview.Model (the message typed so far)
    branchPicker,   \* branchpicker.Model
    projectManager, \* projectmanager.Model
    activeView,     \* App.activeView
    showHelp,       \* App.showHelp
    feedback,       \* App.feedback: "none", "fatal" or "info"
    showGraph,      \* App.showGraph
    showConductor,  \* App.showConductor
    graphFocused,   \* App.graphFocused
    focusPanel,     \* App.focusPanel
    graphRepo,      \* App.graphRepo
    lastDetailHash, \* App.lastDetailHash
    conductorRepo,  \* App.conductorRepo
    width,          \* App.width
    height,         \* App.height
    diffView,       \* diffview.Model: the file and repo it is labelled with
    spinners,       \* App.spinners: the operations that have a loader
    pushingRepoIdx, \* App.pushingRepoIdx
    pending,        \* completion messages of commands that are still running
    crashed         \* the program has panicked (index out of range, nil dereference)

vars == <<cfg, dashboard, conductorPane, graphPane, featureLinker, commitView, branchPicker,
          projectManager, activeView, showHelp, feedback, showGraph,
          showConductor, graphFocused, focusPanel, graphRepo, lastDetailHash,
          conductorRepo, width, height, diffView, spinners, pushingRepoIdx,
          pending, crashed>>

\* What only the diff view, the push key and the spinner ticks touch.
diffAndPush == <<diffView, spinners, pushingRepoIdx>>

----------------------------------------------------------------------------
(* Go slices, maps and integer helpers *)

At(s, i) == s[i + 1]

Max(a, b) == IF a > b THEN a ELSE b

\* Go map read: the zero value (or the given default) when the key is absent.
MapGet(f, k, default) == IF k \in DOMAIN f THEN f[k] ELSE default

\* Go map write.
MapPut(f, k, v) == [x \in (DOMAIN f) \cup {k} |-> IF x = k THEN v ELSE f[x]]

EmptyMap == [x \in {} |-> FALSE]

\* A nil pointer.
Nil == [nil |-> TRUE]

----------------------------------------------------------------------------
(* Strings as byte sequences: path/filepath and strings helpers *)

\* Largest 1-based index at which byte c occurs in s, 0 when it does not.
LastIndexByte(s, c) ==
    LET hits == {i \in 1..Len(s) : s[i] = c}
    IN  IF hits = {} THEN 0 ELSE CHOOSE i \in hits : \A j \in hits : j <= i

\* filepath.Dir on a clean relative path: everything before the last '/',
\* "." when the path has no directory part.
filepathDir(p) ==
    LET i == LastIndexByte(p, 47)
    IN  IF i = 0 THEN <<46>> ELSE SubSeq(p, 1, i - 1)

\* filepath.Ext: the suffix starting at the last '.' of the last path element.
filepathExt(p) ==
    LET slash == LastIndexByte(p, 47)
        dot   == LastIndexByte(p, 46)
    IN  IF dot > slash THEN SubSeq(p, dot, Len(p)) ELSE <<>>

\* strings.Split(s, "/")
RECURSIVE stringsSplit(_)
stringsSplit(s) ==
    LET hits == {i \in 1..Len(s) : s[i] = 47}
    IN  IF hits = {} THEN <<s>>
        ELSE LET i == CHOOSE k \in hits : \A j \in hits : k <= j
             IN  <<SubSeq(s, 1, i - 1)>> \o stringsSplit(SubSeq(s, i + 1, Len(s)))

\* strings.ToLower on ASCII
stringsToLower(s) == [i \in 1..Len(s) |-> IF s[i] >= 65 /\ s[i] <= 90 THEN s[i] + 32 ELSE s[i]]

stringsHasSuffix(s, suf) ==
    /\ Len(s) >= Len(suf)
    /\ SubSeq(s, Len(s) - Len(suf) + 1, Len(s)) = suf

\* Go's < on strings: bytewise lexicographic order.
RECURSIVE StrLess(_, _)
StrLess(s, t) ==
    IF t = <<>> THEN FALSE
    ELSE IF s = <<>> THEN TRUE
    ELSE IF Head(s) # Head(t) THEN Head(s) < Head(t)
    ELSE StrLess(Tail(s), Tail(t))

\* strconv-style decimal rendering of a non-negative int (the %d of Sprintf).
RECURSIVE Itoa(_)
Itoa(n) == IF n < 10 THEN <<48 + n>> ELSE Itoa(n \div 10) \o <<48 + (n % 10)>>

----------------------------------------------------------------------------
(* config *)

DefaultPriorityRules ==
    << [Tier |-> 1,
        Extensions  |-> << <<46, 106, 115>>, <<46, 116, 115>>, <<46, 106, 115, 120>>,
                           <<46, 116, 115, 120>>, <<46, 115, 118, 101, 108, 116, 101>>,
                           <<46, 103, 111>> >>,
        Directories |-> << <<115, 114, 99>>, <<108, 105, 98>>,
                           <<99, 111, 109, 112, 111, 110, 101, 110, 116, 115>>,
                           <<114, 111, 117, 116, 101, 115>>, <<109, 111, 100, 101, 108, 115>>,
                           <<114, 101, 115, 111, 108, 118, 101, 114, 115>> >>],
       [Tier |-> 2,
        Extensions  |-> << <<46, 106, 115, 111, 110>>, <<46, 116, 111, 109, 108>>,
                           <<46, 121, 97, 109, 108>>, <<46, 121, 109, 108>>,
                           <<46, 99, 115, 115>>, <<46, 115, 99, 115, 115>> >>,
        Directories |-> << >>],
       [Tier |-> 3, Extensions |-> << <<46, 109, 100>> >>, Directories |-> << >>],
       [Tier |-> 3, Extensions |-> << >>,
        Directories |-> << <<115, 99, 114, 105, 112, 116, 115>> >>] >>

ResolvedPriorityRules(c) ==
    IF Len(c.Display.Priority) > 0 THEN c.Display.Priority ELSE DefaultPriorityRules

ResolvedDashboardWidth(c) ==
    IF c.Display.DashboardWidth > 0 /\ c.Display.DashboardWidth < 80
    THEN c.Display.DashboardWidth ELSE 25

RECURSIVE AllReposFrom(_, _)
AllReposFrom(projects, k) ==
    IF k > Len(projects) THEN <<>>
    ELSE projects[k].Repos \o AllReposFrom(projects, k + 1)

AllRepos(c) == AllReposFrom(c.Projects, 1)

----------------------------------------------------------------------------
(* dashboard.Model *)

\* FlatItem.  Repo and File are the pointers of the Go struct, kept as the
\* index they point at; -1 is nil.  Unset fields hold Go's zero values.
FlatItem(kind, ri, fi, pi, repo, file, section, tier, dir) ==
    [Kind |-> kind, RepoIndex |-> ri, FileIndex |-> fi, ProjectIndex |-> pi,
     Repo |-> repo, File |-> file, Section |-> section, Tier |-> tier, Dir |-> dir]

ZeroFlatItem == FlatItem("ProjectHeader", 0, 0, 0, -1, -1, "", 0, <<>>)

dashboardNew(rules, display) ==
    [repos |-> <<>>, flatItems |-> <<>>, repoHeaders |-> <<>>,
     collapsed |-> EmptyMap, docsCollapsed |-> EmptyMap, foldersCollapsed |-> EmptyMap,
     priorityRules |-> rules, display |-> display,
     projects |-> <<>>, activeProject |-> -1, pushingRepos |-> {},
     cursor |-> 0, scrollOffset |-> 0, width |-> 0, height |-> 0]

\* SetRepoPushing with a spinner frame, which is never the empty string:
\* the repo header shows the spinner.
SetRepoPushing(m, repoIndex) ==
    [m EXCEPT !.pushingRepos = m.pushingRepos \cup {repoIndex}]

ClearRepoPushing(m, repoIndex) ==
    [m EXCEPT !.pushingRepos = m.pushingRepos \ {repoIndex}]

dashboardSetSize(m, w, h) == [m EXCEPT !.width = w, !.height = h]

dashboardSetProjects(m, projects) == [m EXCEPT !.projects = projects, !.activeProject = -1]

\* SelectedItem: the item and the ok flag.
SelectedItemOk(m) == m.cursor >= 0 /\ m.cursor < Len(m.flatItems)

SelectedItem(m) == IF SelectedItemOk(m) THEN At(m.flatItems, m.cursor) ELSE ZeroFlatItem

folderKey(repoIndex, dir) == Itoa(repoIndex) \o <<58>> \o dir

isFolderCollapsed(m, repoIndex, dir) == MapGet(m.foldersCollapsed, folderKey(repoIndex, dir), FALSE)

\* IsCollapsed that never reads the map.
IsCollapsedIgnored(m, repoIndex) == FALSE

IsCollapsed(m, repoIndex) == MapGet(m.collapsed, repoIndex, FALSE)

\* collapsed by default
isDocsCollapsed(m, repoIndex) == MapGet(m.docsCollapsed, repoIndex, TRUE)

isDocFile(path) == stringsHasSuffix(stringsToLower(path), <<46, 109, 100>>)

isNonSelectable(kind) == kind = "SectionHeader"

\* One rule of resolveTier's loop: extMatch && dirMatch.
ruleMatches(rule, ext, parts) ==
    LET extMatch == \/ Len(rule.Extensions) = 0
                    \/ \E i \in 1..Len(rule.Extensions) : ext = rule.Extensions[i]
        dirMatch == \/ Len(rule.Directories) = 0
                    \/ \E i \in 1..Len(rule.Directories) :
                         \E j \in 1..Len(parts) : parts[j] = rule.Directories[i]
    IN  extMatch /\ dirMatch

\* resolveTier's loop with the last matching rule winning.
resolveTierLastMatch(rules, k, ext, parts) ==
    LET hits == {j \in k..Len(rules) : ruleMatches(rules[j], ext, parts)}
    IN  IF hits = {} THEN 2
        ELSE rules[CHOOSE j \in hits : \A i \in hits : i <= j].Tier

RECURSIVE resolveTierFrom(_, _, _, _)
resolveTierFrom(rules, k, ext, parts) ==
    IF k > Len(rules) THEN 2
    ELSE IF ruleMatches(rules[k], ext, parts) THEN rules[k].Tier
    ELSE resolveTierFrom(rules, k + 1, ext, parts)

resolveTier(filePath, rules) ==
    resolveTierFrom(rules, 1, filepathExt(filePath), stringsSplit(filepathDir(filePath)))

projectRepoOffset(m, projectIndex) ==
    LET n == IF projectIndex < Len(m.projects) THEN projectIndex ELSE Len(m.projects)
        RECURSIVE sum(_)
        sum(i) == IF i > n THEN 0 ELSE Len(m.projects[i].Repos) + sum(i + 1)
    IN  IF n <= 0 THEN 0 ELSE sum(1)

\* The comparison function of sortFiles, on two file indices of repo.
sortFilesLessBy(groupFolders, pi, pj, di, dj, ti, tj) ==
    IF groupFolders /\ di # dj THEN StrLess(di, dj)
    ELSE IF ti # tj THEN ti < tj
    ELSE StrLess(pi, pj)

sortFilesLessPaths(m, pi, pj) ==
    sortFilesLessBy(m.display.GroupFolders, pi, pj, filepathDir(pi), filepathDir(pj),
                    resolveTier(pi, m.priorityRules), resolveTier(pj, m.priorityRules))

sortFilesLess(m, repo, a, b) ==
    sortFilesLessPaths(m, At(repo.Files, a).Path, At(repo.Files, b).Path)

\* The comparison function of the docs sort: by path.
sortDocsLess(m, repo, a, b) == StrLess(At(repo.Files, a).Path, At(repo.Files, b).Path)

\* An unstable insertion: x goes before the first element that is not less
\* than x, and so before every element it is equal to.
RECURSIVE insertUnstable(_, _, _, _, _)
insertUnstable(m, repo, sorted, x, byPath) ==
    IF sorted = <<>> THEN <<x>>
    ELSE IF ~(IF byPath THEN sortDocsLess(m, repo, Head(sorted), x)
                        ELSE sortFilesLess(m, repo, Head(sorted), x))
         THEN <<x>> \o sorted
         ELSE <<Head(sorted)>> \o insertUnstable(m, repo, Tail(sorted), x, byPath)

\* sort.SliceStable: x goes before the first element it is less than, and so
\* after every element it is equal to (elements are inserted in source order).
RECURSIVE insertStable(_, _, _, _, _)
insertStable(m, repo, sorted, x, byPath) ==
    IF sorted = <<>> THEN <<x>>
    ELSE IF (IF byPath THEN sortDocsLess(m, repo, x, Head(sorted))
                       ELSE sortFilesLess(m, repo, x, Head(sorted)))
         THEN <<x>> \o sorted
         ELSE <<Head(sorted)>> \o insertStable(m, repo, Tail(sorted), x, byPath)

RECURSIVE sortSliceStable(_, _, _, _)
sortSliceStable(m, repo, indices, byPath) ==
    IF indices = <<>> THEN <<>>
    ELSE insertStable(m, repo,
                      sortSliceStable(m, repo, SubSeq(indices, 1, Len(indices) - 1), byPath),
                      indices[Len(indices)], byPath)

sortFiles(m, repo, indices) == sortSliceStable(m, repo, indices, FALSE)

\* appendFilesWithFolders: file items of one group, a FolderHeader where the
\* directory changes, the files of a collapsed folder skipped.
RECURSIVE appendFilesFrom(_, _, _, _, _, _, _, _)
RECURSIVE appendFile(_, _, _, _, _, _, _, _, _)
appendFilesFrom(m, ri, projectIndex, repo, indices, section, k, lastDir) ==
    IF k > Len(indices) THEN <<>>
    ELSE appendFile(m, ri, projectIndex, repo, indices, section, k, lastDir,
                    filepathDir(At(repo.Files, indices[k]).Path))

\* The pass without the test for the repository root: every directory,
\* "." included, gets a FolderHeader.
appendFileRootHeader(m, ri, projectIndex, repo, indices, section, k, lastDir, dir) ==
    (IF m.display.GroupFolders /\ dir # lastDir
     THEN << FlatItem("FolderHeader", ri, 0, projectIndex, ri, -1, section, 0, dir) >>
     ELSE << >>)
    \o (IF m.display.GroupFolders /\ isFolderCollapsed(m, ri, dir)
        THEN << >>
        ELSE << FlatItem("File", ri, indices[k], projectIndex, ri, indices[k], section,
                         resolveTier(At(repo.Files, indices[k]).Path, m.priorityRules), dir) >>)
    \o appendFilesFrom(m, ri, projectIndex, repo, indices, section, k + 1,
                       IF m.display.GroupFolders /\ dir # lastDir THEN dir ELSE lastDir)

\* One pass of the loop of appendFilesWithFolders, for the file indices[k] in
\* the directory dir.
appendFile(m, ri, projectIndex, repo, indices, section, k, lastDir, dir) ==
    (IF m.display.GroupFolders /\ dir # <<46>> /\ dir # lastDir
     THEN << FlatItem("FolderHeader", ri, 0, projectIndex, ri, -1, section, 0, dir) >>
     ELSE << >>)
    \o (IF m.display.GroupFolders /\ dir # <<46>> /\ isFolderCollapsed(m, ri, dir)
        THEN << >>
        ELSE << FlatItem("File", ri, indices[k], projectIndex, ri, indices[k], section,
                         resolveTier(At(repo.Files, indices[k]).Path, m.priorityRules), dir) >>)
    \o appendFilesFrom(m, ri, projectIndex, repo, indices, section, k + 1,
                       IF m.display.GroupFolders /\ dir # <<46>> /\ dir # lastDir
                       THEN dir ELSE lastDir)

appendFilesWithFolders(m, ri, projectIndex, repo, indices, section) ==
    appendFilesFrom(m, ri, projectIndex, repo, indices, section, 1, <<>>)

\* The group rebuildFlatItems puts a file in.
fileGroup(m, f) ==
    IF m.display.GroupDocs /\ isDocFile(f.Path) THEN "docs"
    ELSE IF f.StagingState = "Staged" THEN "staged"
    ELSE "unstaged"

\* The file indices of repo that belong to group, in source order.
RECURSIVE collectFiles(_, _, _, _)
collectFiles(m, repo, fi, group) ==
    IF fi >= Len(repo.Files) THEN <<>>
    ELSE (IF fileGroup(m, At(repo.Files, fi)) = group THEN <<fi>> ELSE <<>>)
         \o collectFiles(m, repo, fi + 1, group)

\* The docs items of a repo: files sorted by path, tier 3, no Dir.
docItemsOf(ri, projectIndex, sorted) ==
    [k \in 1..Len(sorted) |->
        FlatItem("File", ri, sorted[k], projectIndex, ri, sorted[k], "docs", 3, <<>>)]

docItems(m, ri, projectIndex, repo, docFiles) ==
    docItemsOf(ri, projectIndex, sortSliceStable(m, repo, docFiles, TRUE))

\* The body of rebuildFlatItems' loop for one repo: header, then its groups.
sectionItems(m, ri, projectIndex, repo, files, section) ==
    IF Len(files) > 0
    THEN << FlatItem("SectionHeader", ri, 0, projectIndex, ri, -1, section, 0, <<>>) >>
         \o appendFilesWithFolders(m, ri, projectIndex, repo, files, section)
    ELSE <<>>

docsGroupItems(m, ri, projectIndex, repo, docFiles) ==
    IF Len(docFiles) > 0
    THEN << FlatItem("DocHeader", ri, 0, projectIndex, ri, -1, "docs", 0, <<>>) >>
         \o (IF ~isDocsCollapsed(m, ri)
             THEN docItems(m, ri, projectIndex, repo, docFiles)
             ELSE <<>>)
    ELSE <<>>

repoItemsOf(m, ri, projectIndex, repo) ==
    << FlatItem("RepoHeader", ri, 0, projectIndex, ri, -1, "", 0, <<>>) >>
    \o (IF repo.Error \/ IsCollapsed(m, ri) THEN <<>>
        ELSE sectionItems(m, ri, projectIndex, repo,
                          sortFiles(m, repo, collectFiles(m, repo, 0, "staged")), "staged")
             \o sectionItems(m, ri, projectIndex, repo,
                             sortFiles(m, repo, collectFiles(m, repo, 0, "unstaged")), "unstaged")
             \o docsGroupItems(m, ri, projectIndex, repo, collectFiles(m, repo, 0, "docs")))

repoItems(m, ri, projectIndex) == repoItemsOf(m, ri, projectIndex, At(m.repos, ri))

\* reposToShow: the global repo indices of the active project, or all repos.
reposToShow(m) ==
    IF m.activeProject >= 0 /\ m.activeProject < Len(m.projects)
    THEN LET offset == projectRepoOffset(m, m.activeProject)
         IN  [i \in 1..Len(At(m.projects, m.activeProject).Repos) |-> offset + i - 1]
    ELSE [i \in 1..Len(m.repos) |-> i - 1]

\* The loop over reposToShow; acc carries flatItems and repoHeaders.
RECURSIVE buildRepos(_, _, _, _, _)
buildRepos(m, toShow, k, projectIndex, acc) ==
    IF k > Len(toShow) THEN acc
    ELSE IF toShow[k] >= Len(m.repos) THEN buildRepos(m, toShow, k + 1, projectIndex, acc)
    ELSE buildRepos(m, toShow, k + 1, projectIndex,
                    [flatItems   |-> acc.flatItems \o repoItems(m, toShow[k], projectIndex),
                     repoHeaders |-> Append(acc.repoHeaders, Len(acc.flatItems))])

dashboardListHeight(m) == IF m.height - 1 < 1 THEN 1 ELSE m.height - 1

dashboardEnsureCursorVisible(m) ==
    LET h == dashboardListHeight(m)
    IN  IF m.cursor < m.scrollOffset THEN [m EXCEPT !.scrollOffset = m.cursor]
        ELSE IF m.cursor >= m.scrollOffset + h THEN [m EXCEPT !.scrollOffset = m.cursor - h + 1]
        ELSE m

\* The first loop of skipNonSelectable.
RECURSIVE dashboardSkipLoop(_, _, _)
dashboardSkipLoop(items, c, dir) ==
    IF c >= 0 /\ c < Len(items) /\ isNonSelectable(At(items, c).Kind)
    THEN dashboardSkipLoop(items, c + dir, dir)
    ELSE c

\* The second loop: from the last item backwards.
RECURSIVE dashboardSkipBack(_, _)
dashboardSkipBack(items, c) ==
    IF c >= 0 /\ isNonSelectable(At(items, c).Kind)
    THEN dashboardSkipBack(items, c - 1)
    ELSE c

\* skipNonSelectable that leaves the cursor where the move put it.
dashboardSkipNonSelectableNoSkip(m, dir) == m

dashboardSkipNonSelectable(m, dir) ==
    IF Len(m.flatItems) = 0 THEN m
    ELSE LET c1 == dashboardSkipLoop(m.flatItems, m.cursor, dir)
             c2 == IF c1 >= Len(m.flatItems)
                   THEN dashboardSkipBack(m.flatItems, Len(m.flatItems) - 1)
                   ELSE c1
             c3 == IF c2 < 0 THEN 0 ELSE c2
         IN  [m EXCEPT !.cursor = c3]

\* The end of rebuildFlatItems: the cursor clamped into the new list, put on
\* a selectable item and kept visible.
dashboardClampCursor(m) ==
    dashboardEnsureCursorVisible(
        dashboardSkipNonSelectable(
            [m EXCEPT !.cursor = Max(0, IF m.cursor >= Len(m.flatItems)
                                        THEN Len(m.flatItems) - 1 ELSE m.cursor)],
            1))

dashboardSetItems(m, built) ==
    dashboardClampCursor([m EXCEPT !.flatItems = built.flatItems,
                                   !.repoHeaders = built.repoHeaders])

dashboardRebuildFlatItems(m) ==
    dashboardSetItems(m,
        IF m.activeProject = -1 /\ Len(m.projects) > 0
        THEN [flatItems   |-> [k \in 1..Len(m.projects) |->
                                  FlatItem("ProjectHeader", 0, 0, k - 1, -1, -1, "", 0, <<>>)],
              repoHeaders |-> <<>>]
        ELSE buildRepos(m, reposToShow(m), 1,
                        IF m.activeProject >= 0 /\ m.activeProject < Len(m.projects)
                        THEN m.activeProject ELSE 0,
                        [flatItems |-> <<>>, repoHeaders |-> <<>>]))

\* SetRepos that collapses the repos on every load.
dashboardSetReposCollapsing(m, repos) ==
    dashboardRebuildFlatItems(
        [m EXCEPT !.repos = repos, !.collapsed = [i \in 0..(Len(repos) - 1) |-> TRUE]])

\* SetRepos: repos are collapsed on the first load.
dashboardSetRepos(m, repos) ==
    LET coll == IF DOMAIN m.collapsed = {}
                THEN [i \in 0..(Len(repos) - 1) |-> TRUE]
                ELSE m.collapsed
    IN  dashboardRebuildFlatItems([m EXCEPT !.repos = repos, !.collapsed = coll])

EnterProject(m) ==
    LET item == SelectedItem(m)
    IN  IF ~SelectedItemOk(m) \/ item.Kind # "ProjectHeader" THEN m
        ELSE dashboardRebuildFlatItems(
                [m EXCEPT !.activeProject = item.ProjectIndex, !.cursor = 0, !.scrollOffset = 0])

\* ExitProject without its loop: the cursor stays on the first row.
restoreProjectCursorSkipped(m1, prev) == m1

\* The loop of ExitProject: the cursor goes to the header of project prev.
restoreProjectCursor(m1, prev) ==
    LET hits == {i \in 0..(Len(m1.flatItems) - 1) :
                    At(m1.flatItems, i).Kind = "ProjectHeader"
                    /\ At(m1.flatItems, i).ProjectIndex = prev}
    IN  IF hits = {} THEN m1
        ELSE dashboardEnsureCursorVisible(
                [m1 EXCEPT !.cursor = CHOOSE i \in hits : \A j \in hits : i <= j])

ExitProject(m) ==
    restoreProjectCursor(
        dashboardRebuildFlatItems(
            [m EXCEPT !.activeProject = -1, !.cursor = 0, !.scrollOffset = 0]),
        m.activeProject)

dashboardToggleCollapse(m) ==
    IF ~SelectedItemOk(m) THEN m
    ELSE LET ri == SelectedItem(m).RepoIndex
         IN  dashboardRebuildFlatItems(
                [m EXCEPT !.collapsed = MapPut(m.collapsed, ri, ~MapGet(m.collapsed, ri, FALSE))])

ToggleDocsCollapse(m) ==
    IF ~SelectedItemOk(m) \/ SelectedItem(m).Kind # "DocHeader" THEN m
    ELSE LET ri == SelectedItem(m).RepoIndex
         IN  dashboardRebuildFlatItems(
                [m EXCEPT !.docsCollapsed = MapPut(m.docsCollapsed, ri, ~isDocsCollapsed(m, ri))])

ToggleFolderCollapse(m) ==
    IF ~SelectedItemOk(m) \/ SelectedItem(m).Kind # "FolderHeader" THEN m
    ELSE LET key == folderKey(SelectedItem(m).RepoIndex, SelectedItem(m).Dir)
         IN  dashboardRebuildFlatItems(
                [m EXCEPT !.foldersCollapsed =
                            MapPut(m.foldersCollapsed, key, ~MapGet(m.foldersCollapsed, key, FALSE))])

dashboardMoveDown(m) ==
    IF m.cursor < Len(m.flatItems) - 1
    THEN dashboardEnsureCursorVisible(
            dashboardSkipNonSelectable([m EXCEPT !.cursor = m.cursor + 1], 1))
    ELSE m

dashboardMoveUp(m) ==
    IF m.cursor > 0
    THEN dashboardEnsureCursorVisible(
            dashboardSkipNonSelectable([m EXCEPT !.cursor = m.cursor - 1], -1))
    ELSE m

NextRepo(m) ==
    IF Len(m.repoHeaders) = 0 THEN m
    ELSE LET after == {k \in 1..Len(m.repoHeaders) : m.repoHeaders[k] > m.cursor}
             idx   == IF after = {} THEN m.repoHeaders[1]
                      ELSE m.repoHeaders[CHOOSE k \in after : \A j \in after : k <= j]
         IN  dashboardEnsureCursorVisible([m EXCEPT !.cursor = idx])

PrevRepo(m) ==
    IF Len(m.repoHeaders) = 0 THEN m
    ELSE LET before == {k \in 1..Len(m.repoHeaders) : m.repoHeaders[k] < m.cursor}
             idx    == IF before = {} THEN m.repoHeaders[Len(m.repoHeaders)]
                       ELSE m.repoHeaders[CHOOSE k \in before : \A j \in before : j <= k]
         IN  dashboardEnsureCursorVisible([m EXCEPT !.cursor = idx])

SelectedRepoOk(m) == SelectedItemOk(m) /\ SelectedItem(m).Repo # -1

ActiveProjectConfigOk(m) == m.activeProject >= 0 /\ m.activeProject < Len(m.projects)

FirstRepoInProjectOk(m, projectIndex) ==
    /\ projectIndex >= 0
    /\ projectIndex < Len(m.projects)
    /\ projectRepoOffset(m, projectIndex) < Len(m.repos)

----------------------------------------------------------------------------
(* conductorpane.Model *)

\* conductorpane.FlatItem: the kind, the source record it points at (Ref, an
\* index into the data's slice, -1 for none) and the label.
CondItem(kind, ref, label) == [Kind |-> kind, Ref |-> ref, Label |-> label]

\* Label texts: a fixed prefix and the text or the numbers formatted into it.
Label(prefix, text, a, b) == [Prefix |-> prefix, Text |-> text, A |-> a, B |-> b]

NoLabel == Label("", "", 0, 0)

\* bubbles viewport.Model, as far as the panel uses it.
viewportNew(w, h) == [Width |-> w, Height |-> h, Content |-> Nil, Lines |-> 0, YOffset |-> 0]

viewportSetContent(vp, content, lines) ==
    LET maxY == Max(0, lines - vp.Height)
    IN  [vp EXCEPT !.Content = content, !.Lines = lines,
                   !.YOffset = IF vp.YOffset > maxY THEN maxY ELSE vp.YOffset]

viewportLineDown(vp, n) ==
    LET maxY == Max(0, vp.Lines - vp.Height)
    IN  IF vp.YOffset >= maxY \/ n = 0 \/ vp.Lines = 0 THEN vp
        ELSE [vp EXCEPT !.YOffset = IF vp.YOffset + n > maxY THEN maxY ELSE vp.YOffset + n]

viewportLineUp(vp, n) ==
    IF vp.YOffset <= 0 \/ n = 0 THEN vp
    ELSE [vp EXCEPT !.YOffset = Max(0, vp.YOffset - n)]

conductorpaneNew ==
    [flatItems |-> <<>>, collapsed |-> [k \in {"MemoryHeader"} |-> TRUE],
     cursor |-> 0, scrollOffset |-> 0, width |-> 0, height |-> 0,
     activeSection |-> "ListSection", detailVP |-> viewportNew(0, 0),
     data |-> Nil, hasConductor |-> FALSE]

isHeader(k) == k \in {"FeatureHeader", "SessionHeader", "QualityHeader", "MemoryHeader"}

condCollapsed(m, kind) == MapGet(m.collapsed, kind, FALSE)

\* listHeight returns how many lines the list section gets.
conductorListHeight(m) ==
    LET h       == m.height
        detailH == IF (h * 35) \div 100 < 6 THEN 6 ELSE (h * 35) \div 100
    IN  IF h > 15 THEN h - detailH - 1 ELSE h

\* sectionSplit returns listH, detailH for the current height.
sectionSplit(m) ==
    LET h       == m.height
        detailH == IF (h * 35) \div 100 < 6 THEN 6 ELSE (h * 35) \div 100
    IN  IF h <= 15 THEN <<h, 0>> ELSE <<h - detailH - 1, detailH>>

\* renderDetail: the text is a function of the item under the cursor and of
\* the data; it is kept as that pair.  The line count is the number of
\* lines the Go code writes for records whose text fields fit on one line.
renderDetail(m, w, h) ==
    IF Len(m.flatItems) = 0 \/ m.cursor < 0 \/ m.cursor >= Len(m.flatItems)
    THEN [Text |-> [NoSelection |-> TRUE], Lines |-> 1]
    ELSE LET item == At(m.flatItems, m.cursor)
         IN  [Text  |-> [Item |-> item, Data |-> m.data],
              Lines |-> CASE item.Kind = "FeatureItem"   -> 5
                          [] item.Kind = "MemoryItem"    ->
                               3 + At(m.data.Memories, item.Ref).ContentLines
                          [] item.Kind = "QualityItem"   -> 4
                          [] item.Kind = "HandoffItem"   -> 3
                          [] item.Kind = "SessionHeader" -> 3
                          [] item.Kind = "FeatureHeader" -> 3
                          [] item.Kind = "QualityHeader" -> 2
                          [] item.Kind = "MemoryHeader"  -> 2
                          [] OTHER -> 0]

updateDetailContent(m) ==
    IF m.height <= 15 THEN m
    ELSE LET detailH == sectionSplit(m)[2]
             content == renderDetail(m, m.width, detailH)
         IN  [m EXCEPT !.detailVP =
                 viewportSetContent(viewportNew(m.width, detailH), content.Text, content.Lines)]

conductorSetSize(m, w, h) == updateDetailContent([m EXCEPT !.width = w, !.height = h])

conductorEnsureCursorVisible(m) ==
    LET listH == IF conductorListHeight(m) < 1 THEN 1 ELSE conductorListHeight(m)
    IN  IF m.cursor < m.scrollOffset THEN [m EXCEPT !.scrollOffset = m.cursor]
        ELSE IF m.cursor >= m.scrollOffset + listH
             THEN [m EXCEPT !.scrollOffset = m.cursor - listH + 1]
        ELSE m

\* The loop of skipNonSelectable: stops on the first item that is no spacer.
RECURSIVE conductorSkipLoop(_, _, _)
conductorSkipLoop(items, c, dir) ==
    IF c >= 0 /\ c < Len(items) /\ At(items, c).Kind = "SectionSpacer"
    THEN conductorSkipLoop(items, c + dir, dir)
    ELSE c

conductorSkipNonSelectable(m, dir) ==
    LET c1 == conductorSkipLoop(m.flatItems, m.cursor, dir)
        c2 == IF c1 < 0 THEN 0 ELSE c1
        c3 == IF c2 >= Len(m.flatItems) THEN Len(m.flatItems) - 1 ELSE c2
    IN  IF c1 >= 0 /\ c1 < Len(m.flatItems) THEN [m EXCEPT !.cursor = c1]
        ELSE [m EXCEPT !.cursor = c3]

\* The items of the features section: not-passed features first, then passed.
featureItems(data) ==
    LET n       == Len(data.Features)
        pick(passed) == SelectSeq([i \in 1..n |-> i - 1],
                           LAMBDA i : (At(data.Features, i).Status = "passed") = passed)
        idx     == pick(FALSE) \o pick(TRUE)
    IN  [k \in 1..Len(idx) |-> CondItem("FeatureItem", idx[k], NoLabel)]

handoffItems(h) ==
    (IF h.CurrentTask # "" THEN << CondItem("HandoffItem", 0, Label("Task:  ", h.CurrentTask, 0, 0)) >> ELSE <<>>)
    \o [k \in 1..Len(h.NextSteps) |-> CondItem("HandoffItem", 0, Label("Next:  ", h.NextSteps[k], 0, 0))]
    \o [k \in 1..Len(h.Blockers) |-> CondItem("HandoffItem", 0, Label("Block: ", h.Blockers[k], 0, 0))]
    \o [k \in 1..Len(h.FilesModified) |-> CondItem("HandoffItem", 0, Label("File:  ", h.FilesModified[k], 0, 0))]

qualityLines(q, qi) ==
    [k \in 1..Len(q.ShortcutsTaken) |-> CondItem("QualityItem", qi, Label("Shortcut: ", q.ShortcutsTaken[k], 0, 0))]
    \o [k \in 1..Len(q.TestsSkipped) |-> CondItem("QualityItem", qi, Label("Skipped: ", q.TestsSkipped[k], 0, 0))]
    \o [k \in 1..Len(q.KnownLimitations) |-> CondItem("QualityItem", qi, Label("Limit: ", q.KnownLimitations[k], 0, 0))]
    \o [k \in 1..Len(q.DeferredWork) |-> CondItem("QualityItem", qi, Label("Deferred: ", q.DeferredWork[k], 0, 0))]
    \o [k \in 1..Len(q.TechnicalDebt) |-> CondItem("QualityItem", qi, Label("Debt: ", q.TechnicalDebt[k], 0, 0))]

RECURSIVE qualityItems(_, _)
qualityItems(quality, qi) ==
    IF qi >= Len(quality) THEN <<>>
    ELSE qualityLines(At(quality, qi), qi) \o qualityItems(quality, qi + 1)

conductorRebuildFlatItems(m) ==
    IF m.data = Nil THEN [m EXCEPT !.flatItems = <<>>]
    ELSE
      LET d == m.data
          features ==
            << CondItem("FeatureHeader", -1, Label("passed", "", d.Passed, d.Total)) >>
            \o (IF ~condCollapsed(m, "FeatureHeader") THEN featureItems(d) ELSE <<>>)
          session ==
            IF d.Session # Nil
            THEN << CondItem("SectionSpacer", -1, NoLabel),
                    CondItem("SessionHeader", 0, Label("", d.Session.Status, 0, 0)) >>
                 \o (IF ~condCollapsed(m, "SessionHeader") /\ d.Handoff # Nil
                     THEN handoffItems(d.Handoff) ELSE <<>>)
            ELSE <<>>
          quality ==
            IF Len(d.Quality) > 0
            THEN << CondItem("SectionSpacer", -1, NoLabel),
                    CondItem("QualityHeader", -1, Label("", "", Len(d.Quality), 0)) >>
                 \o (IF ~condCollapsed(m, "QualityHeader") THEN qualityItems(d.Quality, 0) ELSE <<>>)
            ELSE <<>>
          memories ==
            IF Len(d.Memories) > 0
            THEN << CondItem("SectionSpacer", -1, NoLabel),
                    CondItem("MemoryHeader", -1, Label("", "", Len(d.Memories), 0)) >>
                 \o (IF ~condCollapsed(m, "MemoryHeader")
                     THEN [k \in 1..Len(d.Memories) |-> CondItem("MemoryItem", k - 1, NoLabel)]
                     ELSE <<>>)
            ELSE <<>>
          items == features \o session \o quality \o memories
      IN  [m EXCEPT !.flatItems = items,
                    !.cursor = IF m.cursor >= Len(items) THEN Max(0, Len(items) - 1) ELSE m.cursor]

\* SetData, had it not rendered the detail again.
conductorSetDataKeepsDetail(m, data) ==
    conductorRebuildFlatItems([m EXCEPT !.data = data, !.hasConductor = (data # Nil)])

conductorSetData(m, data) ==
    updateDetailContent(conductorRebuildFlatItems(
        [m EXCEPT !.data = data, !.hasConductor = (data # Nil)]))

conductorToggleCollapse(m) ==
    IF Len(m.flatItems) = 0 \/ m.cursor < 0 \/ m.cursor >= Len(m.flatItems) THEN m
    ELSE LET item == At(m.flatItems, m.cursor)
         IN  IF isHeader(item.Kind)
             THEN conductorRebuildFlatItems(
                    [m EXCEPT !.collapsed = MapPut(m.collapsed, item.Kind, ~condCollapsed(m, item.Kind))])
             ELSE m

conductorMoveDown(m) ==
    IF Len(m.flatItems) = 0 THEN m
    ELSE LET c == IF m.cursor + 1 >= Len(m.flatItems) THEN Len(m.flatItems) - 1 ELSE m.cursor + 1
         IN  conductorEnsureCursorVisible(conductorSkipNonSelectable([m EXCEPT !.cursor = c], 1))

conductorMoveUp(m) ==
    IF Len(m.flatItems) = 0 THEN m
    ELSE LET c == IF m.cursor - 1 < 0 THEN 0 ELSE m.cursor - 1
         IN  conductorEnsureCursorVisible(conductorSkipNonSelectable([m EXCEPT !.cursor = c], -1))

\* NextSection jumps the cursor to the next section header, wrapping.
NextSection(m) ==
    LET n      == Len(m.flatItems)
        after  == {i \in (m.cursor + 1)..(n - 1) : isHeader(At(m.flatItems, i).Kind)}
        before == {i \in 0..(m.cursor - 1) : isHeader(At(m.flatItems, i).Kind)}
    IN  IF after # {}
        THEN conductorEnsureCursorVisible(
                [m EXCEPT !.cursor = CHOOSE i \in after : \A j \in after : i <= j])
        ELSE IF before # {}
        THEN conductorEnsureCursorVisible(
                [m EXCEPT !.cursor = CHOOSE i \in before : \A j \in before : i <= j])
        ELSE m

\* PrevSection jumps the cursor to the previous section header, wrapping.
PrevSection(m) ==
    LET n      == Len(m.flatItems)
        before == {i \in 0..(m.cursor - 1) : isHeader(At(m.flatItems, i).Kind)}
        after  == {i \in (m.cursor + 1)..(n - 1) : isHeader(At(m.flatItems, i).Kind)}
    IN  IF before # {}
        THEN conductorEnsureCursorVisible(
                [m EXCEPT !.cursor = CHOOSE i \in before : \A j \in before : j <= i])
        ELSE IF after # {}
        THEN conductorEnsureCursorVisible(
                [m EXCEPT !.cursor = CHOOSE i \in after : \A j \in after : j <= i])
        ELSE m

\* Update, had Down in the detail section moved the list cursor.
conductorUpdateMovesList(m, k) ==
    IF m.activeSection = "ListSection" THEN
        CASE k = "Down"      -> updateDetailContent(conductorMoveDown(m))
          [] k = "Up"        -> updateDetailContent(conductorMoveUp(m))
          [] k = "Open"      ->
               IF Len(m.flatItems) > 0 /\ m.cursor >= 0 /\ m.cursor < Len(m.flatItems)
               THEN IF isHeader(At(m.flatItems, m.cursor).Kind)
                    THEN updateDetailContent(conductorToggleCollapse(m))
                    ELSE IF At(m.flatItems, m.cursor).Kind # "SectionSpacer"
                    THEN updateDetailContent([m EXCEPT !.activeSection = "DetailSection"])
                    ELSE m
               ELSE m
          [] k = "FocusDown" ->
               IF m.height > 15
               THEN updateDetailContent([m EXCEPT !.activeSection = "DetailSection"])
               ELSE m
          [] k = "NextRepo"  -> updateDetailContent(NextSection(m))
          [] k = "PrevRepo"  -> updateDetailContent(PrevSection(m))
          [] OTHER -> m
    ELSE
        CASE k = "Down" -> updateDetailContent(conductorMoveDown(m))
          [] k = "Up"   -> [m EXCEPT !.detailVP = viewportLineUp(m.detailVP, 1)]
          [] k \in {"FocusUp", "Escape"} -> [m EXCEPT !.activeSection = "ListSection"]
          [] OTHER -> m

\* conductorpane.Model.Update for a key message; k is the matched binding.
conductorUpdate(m, k) ==
    IF m.activeSection = "ListSection" THEN
        CASE k = "Down"      -> updateDetailContent(conductorMoveDown(m))
          [] k = "Up"        -> updateDetailContent(conductorMoveUp(m))
          [] k = "Open"      ->
               IF Len(m.flatItems) > 0 /\ m.cursor >= 0 /\ m.cursor < Len(m.flatItems)
               THEN IF isHeader(At(m.flatItems, m.cursor).Kind)
                    THEN updateDetailContent(conductorToggleCollapse(m))
                    ELSE IF At(m.flatItems, m.cursor).Kind # "SectionSpacer"
                    THEN updateDetailContent([m EXCEPT !.activeSection = "DetailSection"])
                    ELSE m
               ELSE m
          [] k = "FocusDown" ->
               IF m.height > 15
               THEN updateDetailContent([m EXCEPT !.activeSection = "DetailSection"])
               ELSE m
          [] k = "NextRepo"  -> updateDetailContent(NextSection(m))
          [] k = "PrevRepo"  -> updateDetailContent(PrevSection(m))
          [] OTHER -> m
    ELSE
        CASE k = "Down" -> [m EXCEPT !.detailVP = viewportLineDown(m.detailVP, 1)]
          [] k = "Up"   -> [m EXCEPT !.detailVP = viewportLineUp(m.detailVP, 1)]
          [] k \in {"FocusUp", "Escape"} -> [m EXCEPT !.activeSection = "ListSection"]
          [] OTHER -> m

----------------------------------------------------------------------------
(* graphpane.Model *)

\* viewport.SetYOffset clamps to [0, maxYOffset].
viewportSetYOffset(vp, n) ==
    LET maxY == Max(0, vp.Lines - vp.Height)
    IN  [vp EXCEPT !.YOffset = IF n < 0 THEN 0 ELSE IF n > maxY THEN maxY ELSE n]

viewportGotoTop(vp) == viewportSetYOffset(vp, 0)

\* The cached renderedLines are a function of lines and are not kept.
graphpaneNew ==
    [graphVP |-> viewportNew(0, 0), repoPath |-> "", lines |-> <<>>,
     cursor |-> 0, commitIndices |-> <<>>,
     detail |-> Nil, detailHash |-> <<>>,
     fileCursor |-> 0, fileExpanded |-> {}, fileDiffs |-> EmptyMap,
     filesVP |-> viewportNew(0, 0), activeSection |-> "GraphSection",
     commitContext |-> Nil, ready |-> FALSE, width |-> 0, height |-> 0]

\* sectionHeights: graphH, detailH, filesH.
sectionHeights(m) ==
    LET h      == m.height
        usable == IF h - 2 < 6 THEN 6 ELSE h - 2
        g0     == IF m.detail # Nil THEN (usable * 30) \div 100 ELSE h
        d0     == IF m.detail # Nil THEN (usable * 25) \div 100 ELSE 0
        f0     == IF m.detail # Nil THEN usable - g0 - d0 ELSE 0
    IN  << IF g0 < 3 THEN 3 ELSE g0, IF d0 < 0 THEN 0 ELSE d0, IF f0 < 0 THEN 0 ELSE f0 >>

\* Lines of one file entry in the files list: its header, and when expanded
\* its diff (or the one-line placeholder).
fileEntryLines(m, f) ==
    1 + (IF f.Path \in m.fileExpanded
         THEN IF f.Path \in DOMAIN m.fileDiffs /\ m.fileDiffs[f.Path].Lines > 0
              THEN m.fileDiffs[f.Path].Lines ELSE 1
         ELSE 0)

\* fileHeaderLine returns the line index where file at idx starts.
RECURSIVE fileHeaderLine(_, _)
fileHeaderLine(m, idx) ==
    IF idx <= 0 \/ m.detail = Nil THEN 0
    ELSE IF idx > Len(m.detail.Files) THEN fileHeaderLine(m, Len(m.detail.Files))
    ELSE fileHeaderLine(m, idx - 1) + fileEntryLines(m, At(m.detail.Files, idx - 1))

\* Line count of renderFiles' text as the viewport splits it.
renderFilesLines(m) ==
    IF m.detail = Nil \/ Len(m.detail.Files) = 0 THEN 1
    ELSE fileHeaderLine(m, Len(m.detail.Files)) + 1

\* Line count of composeGraph's text as the viewport splits it.
composeGraphLines(m) == IF Len(m.lines) = 0 THEN 1 ELSE Len(m.lines) + 1

SelectedHash(m) ==
    IF Len(m.commitIndices) = 0 THEN <<>>
    ELSE LET lineIdx == At(m.commitIndices, m.cursor)
         IN  IF lineIdx < Len(m.lines) THEN At(m.lines, lineIdx).Hash ELSE <<>>

\* The viewport vp scrolled so that line is among its h visible lines.
viewportReveal(vp, line, h) ==
    IF line < vp.YOffset THEN viewportSetYOffset(vp, line)
    ELSE IF line > vp.YOffset + h - 1 THEN viewportSetYOffset(vp, line - h + 1)
    ELSE vp

ensureGraphCursorVisible(m) ==
    IF Len(m.commitIndices) = 0 THEN m
    ELSE [m EXCEPT !.graphVP = viewportReveal(m.graphVP, At(m.commitIndices, m.cursor),
                                              sectionHeights(m)[1])]

ensureFileCursorVisible(m) ==
    IF m.detail = Nil \/ Len(m.detail.Files) = 0 THEN m
    ELSE [m EXCEPT !.filesVP = viewportReveal(m.filesVP, fileHeaderLine(m, m.fileCursor),
                                              sectionHeights(m)[3])]

\* graphVP.SetContent(composeGraph()) and filesVP.SetContent(renderFiles()).
setGraphContent(m) ==
    [m EXCEPT !.graphVP = viewportSetContent(m.graphVP, [Graph |-> TRUE], composeGraphLines(m))]

setFilesContent(m) ==
    [m EXCEPT !.filesVP = viewportSetContent(m.filesVP, [Files |-> TRUE], renderFilesLines(m))]

\* rebuildViewports, once the new viewports of heights hs are in place.
fillViewports(m) ==
    setFilesContent(IF Len(m.lines) > 0 THEN ensureGraphCursorVisible(setGraphContent(m))
                    ELSE m)

newViewports(m, hs) ==
    [m EXCEPT !.graphVP = viewportNew(m.width, hs[1]),
              !.filesVP = viewportNew(m.width, hs[3])]

rebuildViewports(m) ==
    IF ~m.ready \/ m.height < 1 THEN m
    ELSE fillViewports(newViewports(m, sectionHeights(m)))

graphSetSize(m, w, h) == rebuildViewports([m EXCEPT !.width = w, !.height = h, !.ready = TRUE])

\* The indices of the commit lines, in order.
commitIndicesOf(lines) ==
    SelectSeq([i \in 1..Len(lines) |-> i - 1], LAMBDA i : At(lines, i).IsCommit)

graphGotoTop(m) == [m EXCEPT !.graphVP = viewportGotoTop(m.graphVP)]

SetGraph(m, lines, repoPath) ==
    IF m.ready
    THEN graphGotoTop(rebuildViewports(
            [m EXCEPT !.lines = lines, !.repoPath = repoPath,
                      !.detail = Nil, !.detailHash = <<>>,
                      !.fileCursor = 0, !.fileExpanded = {}, !.fileDiffs = EmptyMap,
                      !.activeSection = "GraphSection",
                      !.commitIndices = commitIndicesOf(lines), !.cursor = 0]))
    ELSE [m EXCEPT !.lines = lines, !.repoPath = repoPath,
                   !.detail = Nil, !.detailHash = <<>>,
                   !.fileCursor = 0, !.fileExpanded = {}, !.fileDiffs = EmptyMap,
                   !.activeSection = "GraphSection",
                   !.commitIndices = commitIndicesOf(lines), !.cursor = 0]

SetCommitDetail(m, detail) ==
    rebuildViewports([m EXCEPT !.detail = detail, !.detailHash = detail.Hash,
                               !.commitContext = Nil, !.fileCursor = 0,
                               !.fileExpanded = {}, !.fileDiffs = EmptyMap])

SetCommitContext(m, ctx) == rebuildViewports([m EXCEPT !.commitContext = ctx])

SetFileDiff(m, path, diff) ==
    ensureFileCursorVisible(
        setFilesContent([m EXCEPT !.fileDiffs = MapPut(m.fileDiffs, path, diff)]))

graphMoveDown(m) ==
    IF Len(m.commitIndices) = 0 THEN m
    ELSE IF m.cursor < Len(m.commitIndices) - 1
    THEN ensureGraphCursorVisible(setGraphContent([m EXCEPT !.cursor = m.cursor + 1]))
    ELSE m

graphMoveUp(m) ==
    IF Len(m.commitIndices) = 0 THEN m
    ELSE IF m.cursor > 0
    THEN ensureGraphCursorVisible(setGraphContent([m EXCEPT !.cursor = m.cursor - 1]))
    ELSE m

refreshFiles(m) == ensureFileCursorVisible(setFilesContent(m))

FileDown(m) ==
    IF m.detail = Nil \/ Len(m.detail.Files) = 0 THEN m
    ELSE IF At(m.detail.Files, m.fileCursor).Path \in m.fileExpanded
            /\ m.filesVP.YOffset + sectionHeights(m)[3] < fileHeaderLine(m, m.fileCursor + 1)
    THEN [m EXCEPT !.filesVP = viewportSetYOffset(m.filesVP, m.filesVP.YOffset + 1)]
    ELSE IF m.fileCursor < Len(m.detail.Files) - 1
    THEN refreshFiles([m EXCEPT !.fileCursor = m.fileCursor + 1])
    ELSE m

FileUp(m) ==
    IF m.detail = Nil \/ Len(m.detail.Files) = 0 THEN m
    ELSE IF m.filesVP.YOffset > fileHeaderLine(m, m.fileCursor)
    THEN [m EXCEPT !.filesVP = viewportSetYOffset(m.filesVP, m.filesVP.YOffset - 1)]
    ELSE IF m.fileCursor > 0
    THEN refreshFiles([m EXCEPT !.fileCursor = m.fileCursor - 1])
    ELSE m

\* ToggleFileExpand: the new model and the path whose diff must be fetched
\* ("" when none).
ToggleFileExpand(m) ==
    IF m.detail = Nil \/ Len(m.detail.Files) = 0 THEN [m |-> m, path |-> ""]
    ELSE LET path == At(m.detail.Files, m.fileCursor).Path
         IN  IF path \in m.fileExpanded
             THEN [m |-> refreshFiles([m EXCEPT !.fileExpanded = m.fileExpanded \ {path}]),
                   path |-> ""]
             ELSE [m |-> refreshFiles([m EXCEPT !.fileExpanded = m.fileExpanded \cup {path}]),
                   path |-> IF path \in DOMAIN m.fileDiffs THEN "" ELSE path]

\* Open in the files section: r is what ToggleFileExpand returned.
fetchFileDiff(m, r) ==
    [m |-> r.m,
     cmds |-> IF r.path # ""
              THEN {[type |-> "CommitFileDiffFetchedMsg", RepoPath |-> m.repoPath,
                     Hash |-> m.detailHash, FilePath |-> r.path]}
              ELSE {}]

\* graphpane.Model.Update for a key message: the new model and the commands
\* it returns (a set of completion messages to come).
graphUpdate(m, k) ==
    IF m.activeSection = "GraphSection" THEN
        CASE k = "Down" -> [m |-> graphMoveDown(m), cmds |-> {}]
          [] k = "Up"   -> [m |-> graphMoveUp(m), cmds |-> {}]
          [] k \in {"Open", "FocusDown"} ->
               [m |-> IF m.detail # Nil /\ Len(m.detail.Files) > 0
                      THEN setFilesContent([m EXCEPT !.activeSection = "FilesSection"])
                      ELSE m,
                cmds |-> {}]
          [] OTHER -> [m |-> m, cmds |-> {}]
    ELSE
        CASE k = "Down" -> [m |-> FileDown(m), cmds |-> {}]
          [] k = "Up"   -> [m |-> FileUp(m), cmds |-> {}]
          [] k \in {"FocusUp", "Escape"} ->
               [m |-> [m EXCEPT !.activeSection = "GraphSection"], cmds |-> {}]
          [] k = "Open" -> fetchFileDiff(m, ToggleFileExpand(m))
          [] OTHER -> [m |-> m, cmds |-> {}]

----------------------------------------------------------------------------
(* The data the collaborators can deliver, and the configurations *)

FileEntry(path, state) == [Path |-> path, StagingState |-> state]

\* src/a.go (staged), src/b.go, README.md
FilesA ==
    << FileEntry(<<115, 114, 99, 47, 97, 46, 103, 111>>, "Staged"),
       FileEntry(<<115, 114, 99, 47, 98, 46, 103, 111>>, "Unstaged"),
       FileEntry(<<82, 69, 65, 68, 77, 69, 46, 109, 100>>, "Unstaged") >>

\* lib/z.go
FilesB ==
    << FileEntry(<<108, 105, 98, 47, 122, 46, 103, 111>>, "Unstaged") >>

\* What git status can report for the configured repos, one entry per repo.
StatusSnapshots ==
    { << [Files |-> FilesA, Error |-> FALSE], [Files |-> <<>>, Error |-> FALSE],
         [Files |-> FilesB, Error |-> FALSE] >>,
      << [Files |-> <<>>, Error |-> FALSE], [Files |-> FilesB, Error |-> FALSE],
         [Files |-> <<>>, Error |-> TRUE] >> }

\* refreshAllStatus: one RepoStatus per configured repo, in AllRepos order.
RepoStatuses(c, snap) ==
    LET all == AllRepos(c)
    IN  [i \in 1..Len(all) |->
            [Path |-> all[i].Path, Files |-> snap[i].Files, Error |-> snap[i].Error]]

TwoProjects ==
    << [Name |-> "P0", Path |-> "/p0",
        Repos |-> << [Path |-> "/p0/rA"], [Path |-> "/p0/rB"] >>],
       [Name |-> "P1", Path |-> "",
        Repos |-> << [Path |-> "/p1/rC"] >>] >>

OneProject ==
    << [Name |-> "P0", Path |-> "/p0",
        Repos |-> << [Path |-> "/p0/rA"], [Path |-> "/p0/rB"] >>] >>

\* A project that has a path and no repo yet.
EmptyProject == << [Name |-> "P0", Path |-> "/p0", Repos |-> <<>>] >>

Config(projects, groupFolders, groupDocs, sg, sc) ==
    [Projects |-> projects,
     Display  |-> [GroupFolders |-> groupFolders, GroupDocs |-> groupDocs,
                   Priority |-> <<>>, DashboardWidth |-> 0,
                   ShowGraph |-> sg, ShowConductor |-> sc]]

\* Terminal sizes (width, height) a WindowSizeMsg can report: a small
\* terminal and a large one, narrow and wide.
SmallHeight == 5

Sizes == { <<30, SmallHeight>>, <<100, SmallHeight>>, <<100, 24>> }

----------------------------------------------------------------------------
(* featurelinker.Model, commitview.Model, branchpicker.Model and
   projectmanager.Model.  Lists are kept as their lengths, text inputs as
   empty or not (the feature linker's filter input as the characters typed);
   scroll offsets, which only the rendering reads, are left out. *)

featurelinkerNew ==
    [visible |-> FALSE, mode |-> "modeBrowse", cursor |-> 0,
     matches |-> 0, allItems |-> 0, filtered |-> 0, query |-> <<>>]

\* Show: nMatches scored matches, nOthers further active features.
featurelinkerShow(m, nMatches, nOthers) ==
    [visible |-> TRUE, mode |-> "modeBrowse", cursor |-> 0,
     matches |-> nMatches, allItems |-> nMatches + nOthers, filtered |-> nMatches,
     query |-> <<>>]

featurelinkerHide(m) ==
    [m EXCEPT !.visible = FALSE, !.matches = 0, !.allItems = 0, !.filtered = 0]

featurelinkerHandleBrowseKey(m, k) ==
    IF k \in {"j", "down"}
    THEN [m |-> IF m.cursor < m.filtered THEN [m EXCEPT !.cursor = m.cursor + 1] ELSE m,
          action |-> "ActionNone"]
    ELSE IF k \in {"k", "up"}
    THEN [m |-> IF m.cursor > 0 THEN [m EXCEPT !.cursor = m.cursor - 1] ELSE m,
          action |-> "ActionNone"]
    ELSE IF k = "enter"
    THEN [m |-> m, action |-> IF m.cursor >= m.filtered THEN "ActionSkip" ELSE "ActionLink"]
    ELSE IF k \in {"esc", "s"}
    THEN [m |-> m, action |-> "ActionSkip"]
    ELSE IF k = "/"
    THEN [m |-> [m EXCEPT !.mode = "modeSearch", !.query = <<>>,
                          !.filtered = m.allItems, !.cursor = 0],
          action |-> "ActionNone"]
    ELSE [m |-> m, action |-> "ActionNone"]

featurelinkerHandleSearchKey(m, k) ==
    IF k = "esc"
    THEN [m |-> [m EXCEPT !.mode = "modeBrowse", !.query = <<>>,
                          !.filtered = m.matches, !.cursor = 0],
          action |-> "ActionNone"]
    ELSE IF k = "enter"
    THEN [m |-> m, action |-> IF m.cursor >= m.filtered THEN "ActionSkip" ELSE "ActionLink"]
    ELSE IF k = "down"
    THEN [m |-> IF m.cursor < m.filtered THEN [m EXCEPT !.cursor = m.cursor + 1] ELSE m,
          action |-> "ActionNone"]
    ELSE IF k = "up"
    THEN [m |-> IF m.cursor > 0 THEN [m EXCEPT !.cursor = m.cursor - 1] ELSE m,
          action |-> "ActionNone"]
    ELSE [m |-> m, action |-> "ActionNone"]

featurelinkerHandleKey(m, k) ==
    IF ~m.visible THEN [m |-> m, action |-> "ActionNone"]
    ELSE IF m.mode = "modeSearch" THEN featurelinkerHandleSearchKey(m, k)
    ELSE featurelinkerHandleBrowseKey(m, k)

\* The keys that are one printable character: the focused text input
\* appends them to its value.
RuneKeys == {"/", "j", "k", "s"}

\* How many of the n features offered hold query in their description,
\* category or id.  Every query typed here begins with "/", and the
\* features of the conductor databases modelled here (f1, f2, ...) hold no
\* "/": only the empty query is found in them.
featuresContaining(n, query) == IF query = <<>> THEN n ELSE 0

\* applyFilter.
applyFilter(m) ==
    IF m.query = <<>> THEN [m EXCEPT !.filtered = m.allItems]
    ELSE LET n == featuresContaining(m.allItems, m.query)
         IN  [m EXCEPT !.filtered = n,
                       !.cursor = IF m.cursor >= n + 1 THEN Max(0, n) ELSE m.cursor]

\* featurelinker.Model.Update for a key: in search mode the key goes to the
\* filter input and the filter is applied again.
featurelinkerUpdate(m, k) ==
    IF m.mode # "modeSearch" THEN m
    ELSE applyFilter([m EXCEPT !.query = IF k \in RuneKeys THEN Append(m.query, k)
                                         ELSE m.query])

\* diffview.New: no file, no viewport.
diffviewNew == [file |-> <<>>, repoPath |-> "", ready |-> FALSE]

\* diffview SetSize, then SetContent: the view is labelled with file and
\* repoPath.
diffviewSetContent(m, file, repoPath) ==
    [m EXCEPT !.file = file, !.repoPath = repoPath, !.ready = TRUE]

\* commitview.New: an empty message.
commitviewNew == [value |-> ""]

branchpickerNew == [mode |-> "PickMode", cursor |-> 0, branches |-> 0]

\* SetBranches with n branches; the filter is empty, so all are listed.
branchpickerSetBranches(m, n) == [mode |-> "PickMode", cursor |-> 0, branches |-> n]

branchpickerHandlePickKey(m, k) ==
    IF k \in {"esc", "q"}
    THEN [m |-> m, action |-> "ActionClose"]
    ELSE IF k \in {"j", "down"}
    THEN [m |-> IF m.cursor < m.branches - 1 THEN [m EXCEPT !.cursor = m.cursor + 1] ELSE m,
          action |-> "ActionNone"]
    ELSE IF k \in {"k", "up"}
    THEN [m |-> IF m.cursor > 0 THEN [m EXCEPT !.cursor = m.cursor - 1] ELSE m,
          action |-> "ActionNone"]
    ELSE IF k = "enter"
    THEN [m |-> m, action |-> IF m.cursor < m.branches THEN "ActionSwitch" ELSE "ActionNone"]
    ELSE IF k = "n"
    THEN [m |-> [m EXCEPT !.mode = "CreateMode"], action |-> "ActionNone"]
    ELSE [m |-> m, action |-> "ActionNone"]

\* handleCreateKey with the name input empty: enter creates nothing.
branchpickerHandleCreateKey(m, k) ==
    IF k = "esc"
    THEN [m |-> [m EXCEPT !.mode = "PickMode"], action |-> "ActionNone"]
    ELSE [m |-> m, action |-> "ActionNone"]

branchpickerHandleKey(m, k) ==
    IF m.mode = "PickMode" THEN branchpickerHandlePickKey(m, k)
    ELSE branchpickerHandleCreateKey(m, k)

projectmanagerNew ==
    [mode |-> "ModeBrowse", cursor |-> 0, flatItems |-> 0, changed |-> FALSE,
     activeField |-> "fieldName", deleteItem |-> 0, projects |-> <<>>]

\* The items of the manager's list: each project followed by its repos.
RECURSIVE projectmanagerItemsFrom(_, _)
projectmanagerItemsFrom(projects, k) ==
    IF k > Len(projects) THEN <<>>
    ELSE <<[Kind |-> "ProjectItem", ProjectIndex |-> k - 1, RepoIndex |-> -1]>>
         \o [r \in 1..Len(projects[k].Repos) |->
                [Kind |-> "RepoItem", ProjectIndex |-> k - 1, RepoIndex |-> r - 1]]
         \o projectmanagerItemsFrom(projects, k + 1)

\* rebuildFlatItems: the list is rebuilt and the cursor clamped into it.
projectmanagerRebuildFlatItems(m) ==
    LET n == Len(projectmanagerItemsFrom(m.projects, 1))
    IN  [m EXCEPT !.flatItems = n,
                  !.cursor = IF m.cursor >= n
                             THEN (IF n - 1 > 0 THEN n - 1 ELSE 0)
                             ELSE m.cursor]

\* SetProjects: a copy of the projects, one item per project and one per repo.
projectmanagerSetProjects(m, projects) ==
    projectmanagerRebuildFlatItems(
        [m EXCEPT !.projects = projects, !.mode = "ModeBrowse", !.cursor = 0,
                  !.changed = FALSE])

\* append(s[:i], s[i+1:]...)
deleteAt(s, i) == SubSeq(s, 1, i) \o SubSeq(s, i + 2, Len(s))

InInputMode(m) == m.mode \in {"ModeAddProject", "ModeAddRepo", "ModeEdit"}

projectmanagerHandleBrowseKey(m, k) ==
    IF k \in {"esc", "q", "P"}
    THEN [m |-> m, action |-> "ActionClose"]
    ELSE IF k \in {"j", "down"}
    THEN [m |-> IF m.cursor < m.flatItems - 1 THEN [m EXCEPT !.cursor = m.cursor + 1] ELSE m,
          action |-> "ActionNone"]
    ELSE IF k \in {"k", "up"}
    THEN [m |-> IF m.cursor > 0 THEN [m EXCEPT !.cursor = m.cursor - 1] ELSE m,
          action |-> "ActionNone"]
    ELSE IF k = "n"
    THEN [m |-> [m EXCEPT !.mode = "ModeAddProject", !.activeField = "fieldName"],
          action |-> "ActionNone"]
    ELSE IF k = "x"
    THEN [m |-> IF m.flatItems > 0
                THEN [m EXCEPT !.deleteItem = m.cursor, !.mode = "ModeConfirmDelete"]
                ELSE m,
          action |-> "ActionNone"]
    ELSE [m |-> m, action |-> "ActionNone"]

\* handleAddProjectKey with the name input empty: enter adds nothing.
projectmanagerHandleAddProjectKey(m, k) ==
    IF k = "esc"
    THEN [m |-> [m EXCEPT !.mode = "ModeBrowse"], action |-> "ActionNone"]
    ELSE IF k = "tab"
    THEN [m |-> [m EXCEPT !.activeField =
                    IF m.activeField = "fieldName" THEN "fieldPath" ELSE "fieldName"],
          action |-> "ActionNone"]
    ELSE [m |-> m, action |-> "ActionNone"]

\* handleDeleteKey: "y" removes the project or the repo under deleteItem.
projectmanagerHandleDeleteKey(m, k) ==
    IF k = "y"
    THEN LET item == At(projectmanagerItemsFrom(m.projects, 1), m.deleteItem)
             pi   == item.ProjectIndex + 1
             ps   == IF item.Kind = "ProjectItem"
                     THEN deleteAt(m.projects, item.ProjectIndex)
                     ELSE [m.projects EXCEPT ![pi].Repos =
                              deleteAt(m.projects[pi].Repos, item.RepoIndex)]
         IN  [m |-> projectmanagerRebuildFlatItems(
                       [m EXCEPT !.projects = ps, !.changed = TRUE,
                                 !.mode = "ModeBrowse"]),
              action |-> "ActionNone"]
    ELSE IF k \in {"n", "esc"}
    THEN [m |-> [m EXCEPT !.mode = "ModeBrowse"], action |-> "ActionNone"]
    ELSE [m |-> m, action |-> "ActionNone"]

projectmanagerHandleKey(m, k) ==
    IF m.mode = "ModeBrowse" THEN projectmanagerHandleBrowseKey(m, k)
    ELSE IF m.mode = "ModeAddProject" THEN projectmanagerHandleAddProjectKey(m, k)
    ELSE IF m.mode = "ModeConfirmDelete" THEN projectmanagerHandleDeleteKey(m, k)
    ELSE [m |-> m, action |-> "ActionNone"]

RepoHasStagedFiles(m, repoIndex) ==
    /\ repoIndex >= 0
    /\ repoIndex < Len(m.repos)
    /\ \E i \in 1..Len(At(m.repos, repoIndex).Files) :
          At(m.repos, repoIndex).Files[i].StagingState = "Staged"

----------------------------------------------------------------------------
(* tui.App *)

\* A command that is still running, named by the message it will deliver
\* ("fetchConductorCmd" delivers a conductorDataMsg only when the project has
\* conductor data; refreshConductorCmd always delivers one).
Msg(type, repoPath, hash, filePath) ==
    [type |-> type, RepoPath |-> repoPath, Hash |-> hash, FilePath |-> filePath]

\* layoutSizes: the three panels after the sizes are set.
layoutSizes(dash, gp, cp, sg, sc, w, h, c) ==
    LET contentH   == IF h - 1 < 3 THEN 3 ELSE h - 1
        dashW3     == (w * ResolvedDashboardWidth(c)) \div 100
        conductorW == (w * 30) \div 100
        graphW3    == IF w - dashW3 - conductorW < 20 THEN 20 ELSE w - dashW3 - conductorW
        graphW2    == w \div 2
    IN  IF sg /\ sc /\ w > 80
        THEN [dashboard     |-> dashboardSetSize(dash, dashW3, contentH),
              graphPane     |-> graphSetSize(gp, graphW3 - 1, contentH),
              conductorPane |-> conductorSetSize(cp, conductorW - 1, contentH)]
        ELSE IF sg /\ w > 40
        THEN [dashboard     |-> dashboardSetSize(dash, w - graphW2, contentH),
              graphPane     |-> graphSetSize(gp, graphW2 - 1, contentH),
              conductorPane |-> cp]
        ELSE [dashboard     |-> dashboardSetSize(dash, w, contentH),
              graphPane     |-> gp,
              conductorPane |-> cp]

conductorPathForProject(c, projectIndex) ==
    IF projectIndex < 0 \/ projectIndex >= Len(c.Projects) THEN ""
    ELSE LET proj == At(c.Projects, projectIndex)
         IN  IF proj.Path # "" THEN proj.Path
             ELSE IF Len(proj.Repos) > 0 THEN proj.Repos[1].Path
             ELSE ""

conductorPathForActiveProject(dash, repoPath) ==
    IF ActiveProjectConfigOk(dash) /\ At(dash.projects, dash.activeProject).Path # ""
    THEN At(dash.projects, dash.activeProject).Path
    ELSE repoPath

\* The path of the repo the selected item points at.
SelectedRepoPath(dash) == At(dash.repos, SelectedItem(dash).Repo).Path

\* maybeRefreshGraph: the new graphRepo and conductorRepo and the commands.
maybeRefreshGraph(dash, gp, c, sg, fp, gRepo, cRepo) ==
    LET none == [graphRepo |-> gRepo, conductorRepo |-> cRepo, cmds |-> {}]
        fetch(repoPath, conductorPath) ==
            [graphRepo     |-> repoPath,
             conductorRepo |-> IF conductorPath # cRepo THEN conductorPath ELSE cRepo,
             cmds |-> {Msg("GraphFetchedMsg", repoPath, <<>>, "")}
                      \cup (IF conductorPath # cRepo
                            THEN {Msg("fetchConductorCmd", conductorPath, <<>>, "")} ELSE {})]
    IN  IF ~sg THEN none
        ELSE IF fp = "FocusGraph" /\ gp.activeSection = "FilesSection" THEN none
        ELSE IF dash.activeProject = -1 /\ Len(c.Projects) > 0
        THEN LET item == SelectedItem(dash)
             IN  IF ~SelectedItemOk(dash) \/ item.Kind # "ProjectHeader" THEN none
                 ELSE IF ~FirstRepoInProjectOk(dash, item.ProjectIndex) THEN none
                 ELSE fetch(At(dash.repos, projectRepoOffset(dash, item.ProjectIndex)).Path,
                            conductorPathForProject(c, item.ProjectIndex))
        ELSE IF ~SelectedRepoOk(dash) THEN none
        ELSE fetch(SelectedRepoPath(dash),
                   conductorPathForActiveProject(dash, SelectedRepoPath(dash)))

\* maybeRefreshConductor: the new conductorRepo and the commands.
maybeRefreshConductor(dash, c, sc, cRepo) ==
    LET none == [conductorRepo |-> cRepo, cmds |-> {}]
        path == IF dash.activeProject = -1 /\ Len(c.Projects) > 0
                THEN IF ~SelectedItemOk(dash) \/ SelectedItem(dash).Kind # "ProjectHeader"
                     THEN ""
                     ELSE conductorPathForProject(c, SelectedItem(dash).ProjectIndex)
                ELSE IF ~SelectedRepoOk(dash) THEN ""
                     ELSE conductorPathForActiveProject(dash, SelectedRepoPath(dash))
    IN  IF ~sc THEN none
        ELSE IF path = "" \/ path = cRepo THEN none
        ELSE [conductorRepo |-> path, cmds |-> {Msg("fetchConductorCmd", path, <<>>, "")}]

\* ResolvedShowGraph: the configured show_graph, or true.
ResolvedShowGraph(c) ==
    IF c.Display.ShowGraph # "nil" THEN c.Display.ShowGraph = "true" ELSE TRUE

\* ResolvedShowConductor: the configured show_conductor, or false.
ResolvedShowConductor(c) ==
    IF c.Display.ShowConductor # "nil" THEN c.Display.ShowConductor = "true" ELSE FALSE

\* NewApp.
NewApp(c) ==
    /\ cfg = c
    /\ dashboard = dashboardSetProjects(dashboardNew(ResolvedPriorityRules(c), c.Display), c.Projects)
    /\ conductorPane = conductorpaneNew
    /\ graphPane = graphpaneNew
    /\ featureLinker = featurelinkerNew
    /\ commitView = commitviewNew
    /\ diffView = diffviewNew
    /\ spinners = {}
    /\ pushingRepoIdx = -1
    /\ branchPicker = branchpickerNew
    /\ projectManager = projectmanagerNew
    /\ activeView = "DashboardView"
    /\ showHelp = FALSE
    /\ feedback = "none"
    /\ showGraph = ResolvedShowGraph(c)
    /\ showConductor = ResolvedShowConductor(c)
    /\ graphFocused = FALSE
    /\ focusPanel = "FocusDashboard"
    /\ graphRepo = ""
    /\ lastDetailHash = <<>>
    /\ conductorRepo = ""
    /\ width = 0
    /\ height = 0
    /\ pending = {}
    /\ crashed = FALSE

\* handleKey reaches the switch on activeView.
Routed == ~crashed /\ feedback # "fatal" /\ ~showHelp

\* handleDashboardKey passes the feature linker.
DashRouted == Routed /\ activeView = "DashboardView" /\ ~featureLinker.visible

CondFocus == DashRouted /\ focusPanel = "FocusConductor"

GraphFocus == DashRouted /\ focusPanel # "FocusConductor"
              /\ (graphFocused \/ focusPanel = "FocusGraph")

DashFocus == DashRouted /\ focusPanel # "FocusConductor"
             /\ ~(graphFocused \/ focusPanel = "FocusGraph")

AllProjectsMode == dashboard.activeProject = -1 /\ Len(cfg.Projects) > 0

\* The assignments of `return a, a.maybeRefreshGraph()` for the dashboard
\* dash, with graphRepo and conductorRepo as the handler left them.
ReturnRefreshGraph(dash, gRepo, cRepo) ==
    LET r == maybeRefreshGraph(dash, graphPane, cfg, showGraph, focusPanel, gRepo, cRepo)
    IN  /\ graphRepo' = r.graphRepo
        /\ conductorRepo' = r.conductorRepo
        /\ pending' = pending \cup r.cmds

\* What a handler of the dashboard panel leaves alone.
DashKeyUnchanged ==
    UNCHANGED <<cfg, conductorPane, graphPane, featureLinker, commitView, diffAndPush, branchPicker,
                projectManager, activeView, showHelp, feedback, showGraph,
                showConductor, graphFocused, focusPanel, lastDetailHash,
                width, height, crashed>>

\* Down / Up with the dashboard focused (both modes).
DashboardDown ==
    /\ DashFocus
    /\ dashboard' = dashboardMoveDown(dashboard)
    /\ ReturnRefreshGraph(dashboard', graphRepo, conductorRepo)
    /\ DashKeyUnchanged

DashboardUp ==
    /\ DashFocus
    /\ dashboard' = dashboardMoveUp(dashboard)
    /\ ReturnRefreshGraph(dashboard', graphRepo, conductorRepo)
    /\ DashKeyUnchanged

\* Open in all-projects mode enters the project under the cursor.
DashboardEnterProject ==
    /\ DashFocus /\ AllProjectsMode
    /\ dashboard' = EnterProject(dashboard)
    /\ ReturnRefreshGraph(dashboard', "", "")
    /\ DashKeyUnchanged

\* Escape in project-detail mode leaves the project.
DashboardEscape ==
    /\ DashFocus /\ ~AllProjectsMode
    /\ IF dashboard.activeProject >= 0
       THEN /\ dashboard' = ExitProject(dashboard)
            /\ ReturnRefreshGraph(dashboard', "", "")
       ELSE UNCHANGED <<dashboard, graphRepo, conductorRepo, pending>>
    /\ DashKeyUnchanged

DashboardNextRepo ==
    /\ DashFocus /\ ~AllProjectsMode
    /\ dashboard' = NextRepo(dashboard)
    /\ ReturnRefreshGraph(dashboard', graphRepo, conductorRepo)
    /\ DashKeyUnchanged

DashboardPrevRepo ==
    /\ DashFocus /\ ~AllProjectsMode
    /\ dashboard' = PrevRepo(dashboard)
    /\ ReturnRefreshGraph(dashboard', graphRepo, conductorRepo)
    /\ DashKeyUnchanged

\* The Open case of project-detail mode, as far as it changes the panel:
\* the collapse toggle of the header under the cursor.
dashboardOpen(m) ==
    IF ~SelectedItemOk(m) THEN m
    ELSE IF SelectedItem(m).Kind = "RepoHeader" THEN dashboardToggleCollapse(m)
    ELSE IF SelectedItem(m).Kind = "DocHeader" THEN ToggleDocsCollapse(m)
    ELSE IF SelectedItem(m).Kind = "FolderHeader" THEN ToggleFolderCollapse(m)
    ELSE m

DashboardOpen ==
    /\ DashFocus /\ ~AllProjectsMode
    /\ dashboard' = dashboardOpen(dashboard)
    /\ IF SelectedItemOk(dashboard) /\ SelectedItem(dashboard).Kind = "RepoHeader"
       THEN ReturnRefreshGraph(dashboard', graphRepo, conductorRepo)
       ELSE UNCHANGED <<graphRepo, conductorRepo, pending>>
    /\ DashKeyUnchanged

\* StatusRefreshedMsg: the result of refreshAllStatus, which Init, the poll
\* tick and every staging command start.
StatusRefreshed(snaps) ==
    /\ ~crashed
    /\ \E snap \in snaps :
          dashboard' = dashboardSetRepos(dashboard, RepoStatuses(cfg, snap))
    /\ ReturnRefreshGraph(dashboard', graphRepo, conductorRepo)
    /\ feedback' \in (IF feedback = "info" THEN {"info", "none"} ELSE {feedback})
    /\ UNCHANGED <<cfg, conductorPane, graphPane, featureLinker, commitView, diffAndPush, branchPicker,
                   projectManager, activeView, showHelp, showGraph,
                   showConductor, graphFocused, focusPanel, lastDetailHash,
                   width, height, crashed>>

StatusRefreshedMsg == StatusRefreshed(StatusSnapshots)

\* tea.WindowSizeMsg, the terminal taking one of the given sizes.
WindowSize(sizes) ==
    /\ ~crashed
    /\ \E size \in sizes :
          LET l == layoutSizes(dashboard, graphPane, conductorPane,
                               showGraph, showConductor, size[1], size[2], cfg)
          IN  /\ width' = size[1]
              /\ height' = size[2]
              /\ dashboard' = l.dashboard
              /\ graphPane' = l.graphPane
              /\ conductorPane' = l.conductorPane
    /\ UNCHANGED <<cfg, featureLinker, commitView, diffAndPush, branchPicker, projectManager, activeView,
                   showHelp, feedback, showGraph, showConductor, graphFocused,
                   focusPanel, graphRepo, lastDetailHash, conductorRepo,
                   pending, crashed>>

WindowSizeMsg == WindowSize(Sizes)

\* a.layoutSizes() with the visibility flags as the handler set them.
LayoutSizes(sg, sc) ==
    LET l == layoutSizes(dashboard, graphPane, conductorPane, sg, sc, width, height, cfg)
    IN  /\ dashboard' = l.dashboard
        /\ graphPane' = l.graphPane
        /\ conductorPane' = l.conductorPane

\* FocusRight with the dashboard focused, had it not tested showGraph.
DashboardFocusRightAlways ==
    /\ DashFocus
    /\ graphFocused' = TRUE /\ focusPanel' = "FocusGraph"
    /\ UNCHANGED <<cfg, dashboard, conductorPane, graphPane, featureLinker, commitView, diffAndPush,
                   branchPicker, projectManager, activeView, showHelp, feedback,
                   showGraph, showConductor, graphRepo, lastDetailHash,
                   conductorRepo, width, height, pending, crashed>>

\* FocusRight with the dashboard focused (both modes).
DashboardFocusRight ==
    /\ DashFocus
    /\ IF showGraph
       THEN graphFocused' = TRUE /\ focusPanel' = "FocusGraph"
       ELSE UNCHANGED <<graphFocused, focusPanel>>
    /\ UNCHANGED <<cfg, dashboard, conductorPane, graphPane, featureLinker, commitView, diffAndPush,
                   branchPicker, projectManager, activeView, showHelp, feedback,
                   showGraph, showConductor, graphRepo, lastDetailHash,
                   conductorRepo, width, height, pending, crashed>>

\* ToggleGraph with the dashboard focused (both modes).
DashboardToggleGraph ==
    /\ DashFocus
    /\ showGraph' = ~showGraph
    /\ graphFocused' = FALSE
    /\ focusPanel' = "FocusDashboard"
    /\ LayoutSizes(showGraph', showConductor)
    /\ IF showGraph'
       THEN LET g == maybeRefreshGraph(dashboard', graphPane', cfg, showGraph',
                                       focusPanel', "", "")
                c == maybeRefreshConductor(dashboard', cfg, showConductor, g.conductorRepo)
            IN  /\ graphRepo' = g.graphRepo
                /\ conductorRepo' = c.conductorRepo
                /\ pending' = pending \cup g.cmds \cup c.cmds
       ELSE UNCHANGED <<graphRepo, conductorRepo, pending>>
    /\ UNCHANGED <<cfg, featureLinker, commitView, diffAndPush, branchPicker, projectManager, activeView,
                   showHelp, feedback, showConductor, lastDetailHash, width,
                   height, crashed>>

\* ToggleConductor with the dashboard focused (both modes).
DashboardToggleConductor ==
    /\ DashFocus
    /\ showConductor' = ~showConductor
    /\ IF ~showConductor' /\ focusPanel = "FocusConductor"
       THEN focusPanel' = "FocusDashboard" /\ graphFocused' = FALSE
       ELSE UNCHANGED <<focusPanel, graphFocused>>
    /\ LayoutSizes(showGraph, showConductor')
    /\ IF showConductor'
       THEN LET c == maybeRefreshConductor(dashboard', cfg, showConductor', "")
            IN  /\ conductorRepo' = c.conductorRepo
                /\ pending' = pending \cup c.cmds
       ELSE UNCHANGED <<conductorRepo, pending>>
    /\ UNCHANGED <<cfg, featureLinker, commitView, diffAndPush, branchPicker, projectManager, activeView,
                   showHelp, feedback, showGraph, graphRepo, lastDetailHash,
                   width, height, crashed>>

\* What a handler that only moves the focus leaves alone.
FocusKeyUnchanged ==
    UNCHANGED <<cfg, dashboard, conductorPane, graphPane, featureLinker, commitView, diffAndPush,
                branchPicker, projectManager, activeView, showHelp, feedback,
                showGraph, showConductor, graphRepo, lastDetailHash,
                conductorRepo, width, height, pending, crashed>>

\* FocusLeft / Escape with the graph focused, had the key gone to the graph
\* pane first while it shows the files of a commit.
GraphFocusLeftFromList ==
    /\ GraphFocus
    /\ IF graphPane.activeSection = "FilesSection"
       THEN /\ graphPane' = graphUpdate(graphPane, "Escape").m
            /\ UNCHANGED <<graphFocused, focusPanel, cfg, dashboard, conductorPane,
                           featureLinker, commitView, diffAndPush, branchPicker, projectManager,
                           activeView, showHelp, feedback, showGraph, showConductor,
                           graphRepo, lastDetailHash, conductorRepo, width, height,
                           pending, crashed>>
       ELSE /\ graphFocused' = FALSE
            /\ focusPanel' = "FocusDashboard"
            /\ FocusKeyUnchanged

\* FocusLeft or Escape with the graph focused.
GraphFocusLeft ==
    /\ GraphFocus
    /\ graphFocused' = FALSE
    /\ focusPanel' = "FocusDashboard"
    /\ FocusKeyUnchanged

\* FocusRight with the graph focused, had it not tested the width.
GraphFocusRightAnyWidth ==
    /\ GraphFocus
    /\ IF showGraph /\ showConductor
       THEN focusPanel' = "FocusConductor" /\ graphFocused' = FALSE
       ELSE UNCHANGED <<focusPanel, graphFocused>>
    /\ FocusKeyUnchanged

\* FocusRight with the graph focused.
GraphFocusRight ==
    /\ GraphFocus
    /\ IF showGraph /\ showConductor /\ width > 80
       THEN focusPanel' = "FocusConductor" /\ graphFocused' = FALSE
       ELSE UNCHANGED <<focusPanel, graphFocused>>
    /\ FocusKeyUnchanged

\* ToggleGraph with the graph or the conductor focused: the graph is hidden.
\* Hiding the graph without touching the focus.
HideGraphKeepFocus ==
    /\ showGraph' = FALSE
    /\ LayoutSizes(showGraph', showConductor)
    /\ UNCHANGED <<cfg, featureLinker, commitView, diffAndPush, branchPicker, projectManager, activeView,
                   showHelp, feedback, showConductor, graphFocused, focusPanel,
                   graphRepo, lastDetailHash, conductorRepo, width, height,
                   pending, crashed>>

HideGraph ==
    /\ showGraph' = FALSE
    /\ graphFocused' = FALSE
    /\ focusPanel' = "FocusDashboard"
    /\ LayoutSizes(showGraph', showConductor)
    /\ UNCHANGED <<cfg, featureLinker, commitView, diffAndPush, branchPicker, projectManager, activeView,
                   showHelp, feedback, showConductor, graphRepo, lastDetailHash,
                   conductorRepo, width, height, pending, crashed>>

GraphToggleGraph == GraphFocus /\ HideGraph

\* ToggleConductor with the graph focused.
GraphToggleConductor ==
    /\ GraphFocus
    /\ showConductor' = ~showConductor
    /\ LayoutSizes(showGraph, showConductor')
    /\ IF showConductor'
       THEN LET c == maybeRefreshConductor(dashboard', cfg, showConductor', "")
            IN  /\ conductorRepo' = c.conductorRepo
                /\ pending' = pending \cup c.cmds
       ELSE UNCHANGED <<conductorRepo, pending>>
    /\ UNCHANGED <<cfg, featureLinker, commitView, diffAndPush, branchPicker, projectManager, activeView,
                   showHelp, feedback, showGraph, graphFocused, focusPanel,
                   graphRepo, lastDetailHash, width, height, crashed>>

\* FocusLeft with the conductor focused, had the router set focusPanel
\* alone.
ConductorFocusLeftPanelOnly ==
    /\ CondFocus
    /\ focusPanel' = "FocusGraph"
    /\ UNCHANGED graphFocused
    /\ FocusKeyUnchanged

\* FocusLeft with the conductor focused.
ConductorFocusLeft ==
    /\ CondFocus
    /\ focusPanel' = "FocusGraph"
    /\ graphFocused' = TRUE
    /\ FocusKeyUnchanged

\* Escape with the conductor focused, had the router not asked the pane for
\* its section.
ConductorEscapeLeaves ==
    /\ CondFocus
    /\ focusPanel' = "FocusDashboard"
    /\ graphFocused' = FALSE
    /\ UNCHANGED <<cfg, dashboard, conductorPane, graphPane, featureLinker, commitView, diffAndPush,
                   branchPicker, projectManager, activeView, showHelp, feedback,
                   showGraph, showConductor, graphRepo, lastDetailHash, conductorRepo,
                   width, height, pending, crashed>>

\* Escape with the conductor focused: the pane's detail section handles it,
\* otherwise the focus returns to the dashboard.
ConductorEscape ==
    /\ CondFocus
    /\ IF conductorPane.activeSection = "DetailSection"
       THEN /\ conductorPane' = conductorUpdate(conductorPane, "Escape")
            /\ UNCHANGED <<focusPanel, graphFocused>>
       ELSE /\ focusPanel' = "FocusDashboard"
            /\ graphFocused' = FALSE
            /\ UNCHANGED conductorPane
    /\ UNCHANGED <<cfg, dashboard, graphPane, featureLinker, commitView, diffAndPush, branchPicker,
                   projectManager, activeView, showHelp, feedback, showGraph,
                   showConductor, graphRepo, lastDetailHash, conductorRepo,
                   width, height, pending, crashed>>

ConductorToggleGraph == CondFocus /\ HideGraph

\* ToggleConductor with the conductor focused: the conductor is hidden.
ConductorToggleConductor ==
    /\ CondFocus
    /\ showConductor' = FALSE
    /\ focusPanel' = "FocusDashboard"
    /\ graphFocused' = FALSE
    /\ LayoutSizes(showGraph, showConductor')
    /\ UNCHANGED <<cfg, featureLinker, commitView, diffAndPush, branchPicker, projectManager, activeView,
                   showHelp, feedback, showGraph, graphRepo, lastDetailHash,
                   conductorRepo, width, height, pending, crashed>>

\* The second loop of NextSection reads flatItems[i] for every i below the
\* cursor: an index out of range when the list is shorter and holds no header.
NextSectionPanics(m) ==
    /\ Len(m.flatItems) < m.cursor
    /\ \A i \in 0..(Len(m.flatItems) - 1) : ~isHeader(At(m.flatItems, i).Kind)

\* The first loop of PrevSection starts reading at flatItems[cursor-1].
PrevSectionPanics(m) == m.cursor >= 1 /\ m.cursor - 1 >= Len(m.flatItems)

conductorUpdatePanics(m, k) ==
    /\ m.activeSection = "ListSection"
    /\ \/ k = "NextRepo" /\ NextSectionPanics(m)
       \/ k = "PrevRepo" /\ PrevSectionPanics(m)

\* The keys the conductor pane acts on.
ConductorKeys == {"Down", "Up", "Open", "FocusDown", "FocusUp", "NextRepo", "PrevRepo"}

\* Any other key with the conductor focused goes to the pane.
ConductorKeyIn(keys) ==
    /\ CondFocus
    /\ \E k \in keys :
          IF conductorUpdatePanics(conductorPane, k)
          THEN crashed' = TRUE /\ UNCHANGED conductorPane
          ELSE conductorPane' = conductorUpdate(conductorPane, k) /\ UNCHANGED crashed
    /\ UNCHANGED <<cfg, dashboard, graphPane, featureLinker, commitView, diffAndPush, branchPicker,
                   projectManager, activeView, showHelp, feedback, showGraph,
                   showConductor, graphFocused, focusPanel, graphRepo,
                   lastDetailHash, conductorRepo, width, height, pending>>

ConductorKey == ConductorKeyIn(ConductorKeys)

\* What the conductor database of a project can hold.
Feature(id, status) == [ID |-> id, Status |-> status]

ConductorFull ==
    [Features |-> << Feature("f1", "passed"), Feature("f2", "pending") >>,
     Passed |-> 1, Total |-> 2,
     Session |-> [Status |-> "active"],
     Handoff |-> [CurrentTask |-> "task", NextSteps |-> <<>>,
                  Blockers |-> <<>>, FilesModified |-> <<>>],
     Quality |-> <<>>,
     Memories |-> << [Name |-> "m1", ContentLines |-> 1] >>]

ConductorSession ==
    [Features |-> << Feature("f2", "pending") >>,
     Passed |-> 0, Total |-> 1,
     Session |-> [Status |-> "active"],
     Handoff |-> Nil,
     Quality |-> <<>>,
     Memories |-> <<>>]

\* A session with one memory whose content is longer than the detail
\* viewport of a 24-row terminal.
ConductorNotes ==
    [ConductorSession EXCEPT !.Memories = << [Name |-> "m1", ContentLines |-> 9] >>]

ConductorSnapshots == {ConductorFull, ConductorSession}

SetDataUnchanged ==
    UNCHANGED <<cfg, dashboard, graphPane, featureLinker, commitView, diffAndPush, branchPicker,
                projectManager, activeView, showHelp, feedback, showGraph,
                showConductor, graphFocused, focusPanel, graphRepo,
                lastDetailHash, conductorRepo, width, height, crashed>>

\* conductorDataMsg from fetchConductorCmd: the data of a project that has a
\* conductor database.  (Without one the command delivers a
\* ConductorRefreshedMsg, which Update ignores.)
ConductorFetchedFrom(snaps) ==
    /\ ~crashed
    /\ \E c \in pending :
          /\ c.type = "fetchConductorCmd"
          /\ pending' = pending \ {c}
          /\ \/ \E data \in snaps :
                   conductorPane' = conductorSetData(conductorPane, data)
             \/ UNCHANGED conductorPane
    /\ SetDataUnchanged

ConductorFetched == ConductorFetchedFrom(ConductorSnapshots)

\* conductorDataMsg from refreshConductorCmd: the data, or nil when the path
\* has no conductor database.
conductorDataMsg ==
    /\ ~crashed
    /\ \E c \in pending :
          /\ c.type = "conductorDataMsg"
          /\ pending' = pending \ {c}
          /\ \E data \in ConductorSnapshots \cup {Nil} :
                conductorPane' = conductorSetData(conductorPane, data)
    /\ SetDataUnchanged

\* pollTickMsg: on the dashboard and branch picker views the status of every
\* repo and the conductor data are fetched again.
pollTickMsg ==
    /\ ~crashed
    /\ feedback' \in (IF feedback = "info" THEN {"info", "none"} ELSE {feedback})
    /\ IF activeView \in {"DashboardView", "BranchPickerView"}
       THEN IF conductorRepo # ""
            THEN pending' = pending \cup {Msg("conductorDataMsg", conductorRepo, <<>>, "")}
            ELSE IF SelectedRepoOk(dashboard)
            THEN pending' = pending \cup
                   {Msg("conductorDataMsg",
                        conductorPathForActiveProject(dashboard, SelectedRepoPath(dashboard)),
                        <<>>, "")}
            ELSE UNCHANGED pending
       ELSE UNCHANGED pending
    /\ UNCHANGED <<cfg, dashboard, conductorPane, graphPane, featureLinker, commitView, diffAndPush,
                   branchPicker, projectManager, activeView, showHelp, showGraph,
                   showConductor, graphFocused, focusPanel, graphRepo,
                   lastDetailHash, conductorRepo, width, height, crashed>>

\* What git holds: commits with their full hash and the files they touch.
CommitOne ==
    [Hash |-> <<1, 0, 1, 0, 1, 0, 1, 0>>,
     Files |-> << [Path |-> "a.go"], [Path |-> "b.go"] >>]

CommitTwo ==
    [Hash |-> <<2, 0, 2, 0, 2, 0, 2, 0>>,
     Files |-> << [Path |-> "a.go"] >>]

Commits == {CommitOne, CommitTwo}

\* The abbreviated hash git log prints for %h.
GitAbbrev(hash) == SubSeq(hash, 1, 7)

\* parseLine: a commit line carries the abbreviated hash, a line of graph
\* characters alone carries none.
CommitLine(commit) == [Hash |-> GitAbbrev(commit.Hash), IsCommit |-> TRUE]

GraphOnlyLine == [Hash |-> <<>>, IsCommit |-> FALSE]

\* What GetGraph can return for a repo.
GraphSnapshots ==
    { << CommitLine(CommitTwo), GraphOnlyLine, CommitLine(CommitOne) >>,
      << CommitLine(CommitOne) >> }

\* The keys the graph pane acts on.
GraphKeys == {"Down", "Up", "Open", "FocusDown", "FocusUp"}

\* The keys of the graph pane, had the router not compared the new selection
\* with the commit whose detail was fetched last.
GraphKeyInRefetch(keys) ==
    /\ GraphFocus
    /\ \E k \in keys :
          LET prevHash == SelectedHash(graphPane)
              r        == graphUpdate(graphPane, k)
              newHash  == SelectedHash(r.m)
          IN  /\ graphPane' = r.m
              /\ pending' = pending \cup r.cmds \cup
                    (IF newHash # <<>> /\ newHash # prevHash
                     THEN {Msg("CommitDetailFetchedMsg", r.m.repoPath, newHash, "")}
                     ELSE {})
    /\ UNCHANGED <<cfg, dashboard, conductorPane, featureLinker, commitView, diffAndPush, branchPicker,
                   projectManager, activeView, showHelp, feedback, showGraph,
                   showConductor, graphFocused, focusPanel, graphRepo,
                   lastDetailHash, conductorRepo, width, height, crashed>>

\* Any other key with the graph focused goes to the pane; a cursor that
\* reaches a new commit starts the fetch of its detail.
GraphKeyIn(keys) ==
    /\ GraphFocus
    /\ \E k \in keys :
          LET prevHash == SelectedHash(graphPane)
              r        == graphUpdate(graphPane, k)
              newHash  == SelectedHash(r.m)
          IN  /\ graphPane' = r.m
              /\ pending' = pending \cup r.cmds \cup
                    (IF newHash # <<>> /\ newHash # prevHash /\ newHash # lastDetailHash
                     THEN {Msg("CommitDetailFetchedMsg", r.m.repoPath, newHash, "")}
                     ELSE {})
    /\ UNCHANGED <<cfg, dashboard, conductorPane, featureLinker, commitView, diffAndPush, branchPicker,
                   projectManager, activeView, showHelp, feedback, showGraph,
                   showConductor, graphFocused, focusPanel, graphRepo,
                   lastDetailHash, conductorRepo, width, height, crashed>>

GraphKey == GraphKeyIn(GraphKeys)

GraphMsgUnchanged ==
    UNCHANGED <<cfg, dashboard, conductorPane, featureLinker, commitView, diffAndPush, branchPicker,
                projectManager, activeView, showHelp, feedback, showGraph,
                showConductor, graphFocused, focusPanel, graphRepo,
                conductorRepo, width, height, crashed>>

\* GraphFetchedMsg: the graph of the repo, unless git failed.
GraphFetchedMsg ==
    /\ ~crashed
    /\ \E c \in pending :
          /\ c.type = "GraphFetchedMsg"
          /\ pending' = pending \ {c}
          /\ \/ \E lines \in GraphSnapshots :
                   graphPane' = SetGraph(graphPane, lines, c.RepoPath)
             \/ UNCHANGED graphPane
    /\ UNCHANGED lastDetailHash
    /\ GraphMsgUnchanged

\* GetCommitDetail for an abbreviated hash.
CommitDetailOf(hash) == CHOOSE commit \in Commits : GitAbbrev(commit.Hash) = hash

\* CommitDetailFetchedMsg for the request c, without error.
DeliverCommitDetail(c) ==
    /\ graphPane' = SetCommitDetail(graphPane, CommitDetailOf(c.Hash))
    /\ lastDetailHash' = c.Hash
    /\ pending' = (pending \ {c}) \cup
          (IF conductorRepo # ""
           THEN {Msg("commitContextMsg", conductorRepo, c.Hash, "")}
           ELSE {})

CommitDetailFetchedMsg ==
    /\ ~crashed
    /\ \E c \in pending :
          /\ c.type = "CommitDetailFetchedMsg"
          /\ \/ DeliverCommitDetail(c)
             \/ /\ pending' = pending \ {c}
                /\ UNCHANGED <<graphPane, lastDetailHash>>
    /\ GraphMsgUnchanged

\* commitContextMsg: the conductor context of the commit, nil when none.
commitContextMsg ==
    /\ ~crashed
    /\ \E c \in pending :
          /\ c.type = "commitContextMsg"
          /\ pending' = pending \ {c}
          /\ \E ctx \in {Nil, [Feature |-> "f1"]} :
                graphPane' = SetCommitContext(graphPane, ctx)
    /\ UNCHANGED lastDetailHash
    /\ GraphMsgUnchanged

\* GetCommitFileDiff: the diff of one file in one commit.
CommitFileDiff(hash, path) == [Lines |-> 3, Hash |-> hash]

\* CommitFileDiffFetchedMsg: the diff of one file of the commit, unless git
\* failed.
CommitFileDiffFetchedMsg ==
    /\ ~crashed
    /\ \E c \in pending :
          /\ c.type = "CommitFileDiffFetchedMsg"
          /\ pending' = pending \ {c}
          /\ \/ graphPane' = SetFileDiff(graphPane, c.FilePath,
                                         CommitFileDiff(c.Hash, c.FilePath))
             \/ UNCHANGED graphPane
    /\ UNCHANGED lastDetailHash
    /\ GraphMsgUnchanged

\* What the help screen and the overlays never touch.
layout ==
    <<cfg, conductorPane, graphPane, showGraph, showConductor, graphFocused,
      focusPanel, lastDetailHash, width, height, crashed>>

\* The help key, whatever the view.
KeyHelp ==
    /\ ~crashed /\ feedback # "fatal"
    /\ showHelp' = ~showHelp
    /\ UNCHANGED <<layout, dashboard, featureLinker, commitView, diffAndPush, branchPicker,
                   projectManager, activeView, feedback, graphRepo,
                   conductorRepo, pending>>

\* Any other key while the help screen is shown closes it.
KeyCloseHelp ==
    /\ ~crashed /\ feedback # "fatal"
    /\ showHelp
    /\ showHelp' = FALSE
    /\ UNCHANGED <<layout, dashboard, featureLinker, commitView, diffAndPush, branchPicker,
                   projectManager, activeView, feedback, graphRepo,
                   conductorRepo, pending>>

\* The project manager key with the dashboard focused (both modes).
DashboardProjectManager ==
    /\ DashFocus
    /\ projectManager' = projectmanagerSetProjects(projectManager, cfg.Projects)
    /\ activeView' = "ProjectManagerView"
    /\ UNCHANGED <<layout, dashboard, featureLinker, commitView, diffAndPush, branchPicker,
                   showHelp, feedback, graphRepo, conductorRepo, pending>>

\* The keys given to the project manager: no text is typed into its inputs,
\* so the project list is edited by deletions only.
ProjectManagerKeys(m) ==
    IF InInputMode(m) THEN {"esc", "tab", "enter"}
    ELSE IF m.mode = "ModeConfirmDelete" THEN {"n", "esc", "j", "y"}
    ELSE {"esc", "q", "P", "j", "k", "n", "x", "enter"}

\* handleProjectManagerKey and processProjectManagerResult.  A close that
\* carries changes stores the projects in the config, and, when the config
\* file could be saved and read back, hands them to the dashboard; the status
\* refresh it asks for is delivered by StatusRefreshed.
ProjectManagerKeyIn(keys) ==
    /\ Routed /\ activeView = "ProjectManagerView"
    /\ \E k \in keys \cap ProjectManagerKeys(projectManager) :
          LET r == projectmanagerHandleKey(projectManager, k)
              closed == r.action = "ActionClose"
          IN  /\ projectManager' = r.m
              /\ activeView' = IF closed THEN "DashboardView" ELSE activeView
              /\ IF closed /\ r.m.changed
                 THEN /\ cfg' = [cfg EXCEPT !.Projects = r.m.projects]
                      /\ \E saved \in BOOLEAN :
                            dashboard' = IF saved
                                         THEN dashboardSetProjects(dashboard, r.m.projects)
                                         ELSE dashboard
                      /\ feedback' = "info"
                 ELSE UNCHANGED <<cfg, dashboard, feedback>>
    /\ UNCHANGED <<conductorPane, graphPane, showGraph, showConductor, graphFocused,
                   focusPanel, lastDetailHash, width, height, crashed,
                   featureLinker, commitView, diffAndPush, branchPicker,
                   showHelp, graphRepo, conductorRepo, pending>>

ProjectManagerKey == ProjectManagerKeyIn(ProjectManagerKeys(projectManager))

\* The branch key in project-detail mode.
DashboardBranch ==
    /\ DashFocus /\ ~AllProjectsMode
    /\ pending' = IF SelectedRepoOk(dashboard)
                  THEN pending \cup {Msg("BranchesFetchedMsg", SelectedRepoPath(dashboard), <<>>, "")}
                  ELSE pending
    /\ UNCHANGED <<layout, dashboard, featureLinker, commitView, diffAndPush, branchPicker,
                   projectManager, activeView, showHelp, feedback, graphRepo,
                   conductorRepo>>

\* How many branches git can list for a repo.
BranchCounts == {1, 2}

BranchesFetchedMsg ==
    /\ ~crashed
    /\ \E c \in pending :
          /\ c.type = "BranchesFetchedMsg"
          /\ pending' = pending \ {c}
          /\ \/ \E n \in BranchCounts :
                   /\ branchPicker' = branchpickerSetBranches(branchPicker, n)
                   /\ activeView' = "BranchPickerView"
             \/ UNCHANGED <<branchPicker, activeView>>
    /\ UNCHANGED <<layout, dashboard, featureLinker, commitView, diffAndPush, projectManager,
                   showHelp, feedback, graphRepo, conductorRepo>>

\* The keys given to the branch picker: no branch name is typed.
BranchPickerKeys(m) ==
    IF m.mode = "PickMode" THEN {"esc", "q", "j", "k", "enter", "n"}
    ELSE {"esc", "enter"}

\* handleBranchPickerKey.
BranchPickerKeyIn(keys) ==
    /\ Routed /\ activeView = "BranchPickerView"
    /\ \E k \in keys \cap BranchPickerKeys(branchPicker) :
          LET r == branchpickerHandleKey(branchPicker, k)
          IN  /\ branchPicker' = r.m
              /\ pending' =
                    IF r.action = "ActionClose"
                    THEN pending \cup {Msg("CloseBranchPickerMsg", "", <<>>, "")}
                    ELSE IF r.action = "ActionSwitch" /\ SelectedRepoOk(dashboard)
                    THEN pending \cup {Msg("BranchSwitchedMsg", SelectedRepoPath(dashboard), <<>>, "")}
                    ELSE pending
    /\ UNCHANGED <<layout, dashboard, featureLinker, commitView, diffAndPush, projectManager,
                   activeView, showHelp, feedback, graphRepo, conductorRepo>>

BranchPickerKey == BranchPickerKeyIn(BranchPickerKeys(branchPicker))

CloseBranchPickerMsg ==
    /\ ~crashed
    /\ \E c \in pending :
          /\ c.type = "CloseBranchPickerMsg"
          /\ pending' = pending \ {c}
    /\ activeView' = "DashboardView"
    /\ UNCHANGED <<layout, dashboard, featureLinker, commitView, diffAndPush, branchPicker,
                   projectManager, showHelp, feedback, graphRepo, conductorRepo>>

\* BranchSwitchedMsg, with or without error.
BranchSwitchedMsg ==
    /\ ~crashed
    /\ \E c \in pending :
          /\ c.type = "BranchSwitchedMsg"
          /\ pending' = pending \ {c}
    /\ activeView' = "DashboardView"
    /\ graphRepo' = ""
    /\ UNCHANGED <<layout, dashboard, featureLinker, commitView, diffAndPush, branchPicker,
                   projectManager, showHelp, feedback, conductorRepo>>

\* The commit key in project-detail mode.
DashboardCommit ==
    /\ DashFocus /\ ~AllProjectsMode
    /\ IF SelectedItemOk(dashboard)
          /\ RepoHasStagedFiles(dashboard, SelectedItem(dashboard).RepoIndex)
       THEN activeView' = "CommitView" /\ commitView' = [value |-> ""]
       ELSE UNCHANGED <<activeView, commitView>>
    /\ UNCHANGED <<layout, dashboard, featureLinker, branchPicker, projectManager,
                   showHelp, feedback, graphRepo, conductorRepo, pending, diffAndPush>>

\* Escape, a typed character and the submit key in the commit view.
CommitKeys == {"esc", "char", "submit"}

\* handleCommitKey.
CommitKey ==
    /\ Routed /\ activeView = "CommitView"
    /\ \E k \in CommitKeys :
          /\ commitView' = IF k = "char" THEN [value |-> "message"] ELSE commitView
          /\ pending' =
                IF k = "esc"
                THEN pending \cup {Msg("CloseCommitMsg", "", <<>>, "")}
                ELSE IF k = "submit" /\ commitView.value # "" /\ SelectedRepoOk(dashboard)
                THEN pending \cup {Msg("CommitCompleteMsg", SelectedRepoPath(dashboard), <<>>, "")}
                ELSE pending
    /\ UNCHANGED <<layout, dashboard, featureLinker, branchPicker, projectManager,
                   activeView, showHelp, feedback, graphRepo, conductorRepo, diffAndPush>>

CloseCommitMsg ==
    /\ ~crashed
    /\ \E c \in pending :
          /\ c.type = "CloseCommitMsg"
          /\ pending' = pending \ {c}
    /\ activeView' = "DashboardView"
    /\ UNCHANGED <<layout, dashboard, featureLinker, commitView, diffAndPush, branchPicker,
                   projectManager, showHelp, feedback, graphRepo, conductorRepo>>

\* CommitCompleteMsg: on success the dashboard returns and the commit is
\* matched to the features of the project; on error the commit view stays.
CommitCompleteMsg ==
    /\ ~crashed
    /\ \E c \in pending :
          /\ c.type = "CommitCompleteMsg"
          /\ \/ /\ activeView' = "DashboardView"
                /\ feedback' = "info"
                /\ pending' = (pending \ {c}) \cup
                      (IF SelectedRepoOk(dashboard)
                       THEN {Msg("featureMatchMsg",
                                 conductorPathForActiveProject(dashboard, SelectedRepoPath(dashboard)),
                                 CommitOne.Hash, "")}
                       ELSE {})
             \/ /\ pending' = pending \ {c}
                /\ UNCHANGED <<activeView, feedback>>
    /\ UNCHANGED <<layout, dashboard, featureLinker, commitView, diffAndPush, branchPicker,
                   projectManager, showHelp, graphRepo, conductorRepo>>

\* What MatchFeature can find: scored matches and further active features.
FeatureMatches == { <<0, 0>>, <<0, 2>>, <<1, 1>> }

\* featureMatchMsg: the linker is shown when there is a feature to offer.
featureMatchMsg ==
    /\ ~crashed
    /\ \E c \in pending :
          /\ c.type = "featureMatchMsg"
          /\ pending' = pending \ {c}
    /\ \E f \in FeatureMatches :
          featureLinker' = IF f[1] > 0 \/ f[1] + f[2] > 0
                           THEN featurelinkerShow(featureLinker, f[1], f[2])
                           ELSE featureLinker
    /\ UNCHANGED <<layout, dashboard, commitView, diffAndPush, branchPicker, projectManager,
                   activeView, showHelp, feedback, graphRepo, conductorRepo>>

\* The keys given to the feature linker: no search text is typed.
FeatureLinkerKeys(m) ==
    IF m.mode = "modeSearch" THEN {"esc", "enter", "down", "up"}
    ELSE {"j", "k", "enter", "esc", "s", "/"}

\* handleDashboardKey with the feature linker visible: the linker handles
\* the key, and when it is in search mode afterwards the key is forwarded
\* to its Update as well.
FeatureLinkerKeyIn(keys) ==
    /\ Routed /\ activeView = "DashboardView" /\ featureLinker.visible
    /\ \E k \in keys \cap FeatureLinkerKeys(featureLinker) :
          LET r == featurelinkerHandleKey(featureLinker, k)
          IN  /\ featureLinker' = IF r.action \in {"ActionLink", "ActionSkip"}
                                  THEN featurelinkerHide(r.m)
                                  ELSE IF r.m.mode = "modeSearch"
                                  THEN featurelinkerUpdate(r.m, k)
                                  ELSE r.m
              /\ pending' =
                    IF r.action = "ActionLink" /\ SelectedRepoOk(dashboard)
                    THEN pending \cup
                           {Msg("FeatureLinkedMsg",
                                conductorPathForActiveProject(dashboard, SelectedRepoPath(dashboard)),
                                <<>>, "")}
                    ELSE pending
    /\ UNCHANGED <<layout, dashboard, commitView, diffAndPush, branchPicker, projectManager,
                   activeView, showHelp, feedback, graphRepo, conductorRepo>>

FeatureLinkerKey == FeatureLinkerKeyIn(FeatureLinkerKeys(featureLinker))

\* FeatureLinkedMsg: on success the conductor data is fetched again.
FeatureLinkedMsg ==
    /\ ~crashed
    /\ \E c \in pending :
          /\ c.type = "FeatureLinkedMsg"
          /\ \/ /\ feedback' = "info"
                /\ IF SelectedRepoOk(dashboard)
                   THEN /\ conductorRepo' = ""
                        /\ pending' = (pending \ {c}) \cup
                              {Msg("conductorDataMsg",
                                   conductorPathForActiveProject(dashboard, SelectedRepoPath(dashboard)),
                                   <<>>, "")}
                   ELSE /\ pending' = pending \ {c}
                        /\ UNCHANGED conductorRepo
             \/ /\ pending' = pending \ {c}
                /\ UNCHANGED <<feedback, conductorRepo>>
    /\ UNCHANGED <<layout, dashboard, featureLinker, commitView, diffAndPush, branchPicker,
                   projectManager, activeView, showHelp, graphRepo>>

----------------------------------------------------------------------------
(* The dashboard panel on its own: graph and conductor panes switched off *)

DashConfigs ==
    { Config(TwoProjects, g, g, "false", "nil") : g \in BOOLEAN }

InitDash == \E c \in DashConfigs : NewApp(c)

NextDash ==
    \/ DashboardDown
    \/ DashboardUp
    \/ DashboardEnterProject
    \/ DashboardEscape
    \/ DashboardNextRepo
    \/ DashboardPrevRepo
    \/ DashboardOpen
    \/ StatusRefreshedMsg
    \/ WindowSizeMsg

SpecDash == InitDash /\ [][NextDash]_vars

----------------------------------------------------------------------------
(* Properties of the dashboard panel *)

\* C1: in the Dashboard panel the cursor indexes an existing selectable item
\* (never a SectionHeader) whenever the flat list is non-empty, and is 0
\* whenever the list is empty.
DashboardCursorSelectable ==
    IF Len(dashboard.flatItems) = 0
    THEN dashboard.cursor = 0
    ELSE /\ SelectedItemOk(dashboard)
         /\ ~isNonSelectable(SelectedItem(dashboard).Kind)

\* A move has carried the cursor across a section header.
DashboardCursorPastSection ==
    /\ dashboard.cursor >= 2
    /\ SelectedItemOk(dashboard)
    /\ At(dashboard.flatItems, dashboard.cursor - 1).Kind = "SectionHeader"

\* C3: in the Dashboard panel scrollOffset <= cursor <= scrollOffset +
\* listHeight - 1 whenever the list is non-empty, after every move, rebuild
\* and resize.
DashboardCursorVisible ==
    Len(dashboard.flatItems) > 0 =>
        /\ dashboard.scrollOffset <= dashboard.cursor
        /\ dashboard.cursor <= dashboard.scrollOffset + dashboardListHeight(dashboard) - 1

\* C10: pressing Open twice on the header under the cursor (Dashboard repo,
\* docs or folder header; Conductor section header), with no data change in
\* between, gives back the flat item sequence it started from.
ToggleTwiceRestoresList ==
    /\ (/\ ~AllProjectsMode
        /\ SelectedItemOk(dashboard)
        /\ SelectedItem(dashboard).Kind \in {"RepoHeader", "DocHeader", "FolderHeader"})
       => dashboardOpen(dashboardOpen(dashboard)).flatItems = dashboard.flatItems
    /\ (/\ conductorPane.activeSection = "ListSection"
        /\ conductorPane.cursor < Len(conductorPane.flatItems)
        /\ isHeader(At(conductorPane.flatItems, conductorPane.cursor).Kind))
       => conductorUpdate(conductorUpdate(conductorPane, "Open"), "Open").flatItems
            = conductorPane.flatItems

\* C20: from all-projects mode, Enter on a project header puts the Dashboard
\* in project-detail mode of that project with cursor and scroll offset 0; an
\* Escape with dashboard focus returns to all-projects mode with the cursor
\* on the header of the project that was entered, if that project still
\* exists.
EnterEscapeRoundTrip ==
    [][/\ (/\ DashboardEnterProject
           /\ SelectedItemOk(dashboard)
           /\ SelectedItem(dashboard).Kind = "ProjectHeader")
          => (/\ dashboard'.activeProject = SelectedItem(dashboard).ProjectIndex
              /\ dashboard'.cursor = 0
              /\ dashboard'.scrollOffset = 0)
       /\ (/\ DashboardEscape
           /\ dashboard.activeProject >= 0
           /\ dashboard.activeProject < Len(dashboard.projects))
          => (/\ dashboard'.activeProject = -1
              /\ SelectedItemOk(dashboard')
              /\ SelectedItem(dashboard').Kind = "ProjectHeader"
              /\ SelectedItem(dashboard').ProjectIndex = dashboard.activeProject)]_vars

\* The second project was entered and Escape is about to go back to its
\* header, which is not the first row.
EscapeFromSecondProject ==
    /\ dashboard.activeProject = 1
    /\ dashboard.cursor > 0
    /\ ENABLED (DashboardEscape /\ dashboard'.cursor = 1)

\* The path of the file a File item of panel m points at.
itemPath(m, item) ==
    IF item.Kind = "File" THEN At(At(m.repos, item.RepoIndex).Files, item.FileIndex).Path
    ELSE <<>>

\* Item a of panel m1 and item b of panel m2 are the same repo header, the
\* same folder header or the same file (repo and path).
sameLogicalItem(m1, a, m2, b) ==
    /\ a.Kind \in {"RepoHeader", "FolderHeader", "File"}
    /\ b.Kind = a.Kind
    /\ b.RepoIndex = a.RepoIndex
    /\ b.Dir = a.Dir
    /\ itemPath(m2, b) = itemPath(m1, a)

\* C14: when a status refresh rebuilds the Dashboard list and the repo
\* header, folder header or file under the cursor still exists in the new
\* list, the cursor points at that same item after the rebuild.
CursorFollowsItem ==
    [][(/\ StatusRefreshedMsg
        /\ SelectedItemOk(dashboard)
        /\ \E j \in 0..(Len(dashboard'.flatItems) - 1) :
              sameLogicalItem(dashboard, SelectedItem(dashboard),
                              dashboard', At(dashboard'.flatItems, j)))
       => (/\ SelectedItemOk(dashboard')
           /\ sameLogicalItem(dashboard, SelectedItem(dashboard),
                              dashboard', SelectedItem(dashboard')))]_vars

----------------------------------------------------------------------------
(* The conductor pane, for a project whose conductor data changes *)

CondConfigs == { Config(EmptyProject, TRUE, TRUE, "nil", "nil") }

InitCond == \E c \in CondConfigs : NewApp(c)

NextCond ==
    \/ WindowSizeMsg
    \/ StatusRefreshedMsg
    \/ pollTickMsg
    \/ ConductorFetched
    \/ conductorDataMsg
    \/ DashboardToggleConductor
    \/ DashboardFocusRight
    \/ GraphFocusRight
    \/ ConductorKey

SpecCond == InitCond /\ [][NextCond]_vars

\* C2: in the Conductor panel the cursor points at a selectable item (never a
\* SectionSpacer) whenever the list is non-empty, and is 0 whenever the list
\* is empty.
ConductorCursorSelectable ==
    IF Len(conductorPane.flatItems) = 0
    THEN conductorPane.cursor = 0
    ELSE /\ conductorPane.cursor >= 0
         /\ conductorPane.cursor < Len(conductorPane.flatItems)
         /\ At(conductorPane.flatItems, conductorPane.cursor).Kind # "SectionSpacer"

\* C4: in the Conductor panel scrollOffset <= cursor <= scrollOffset +
\* listHeight - 1 whenever the list is non-empty.
ConductorCursorVisible ==
    Len(conductorPane.flatItems) > 0 =>
        /\ conductorPane.scrollOffset <= conductorPane.cursor
        /\ conductorPane.cursor <=
              conductorPane.scrollOffset + Max(1, conductorListHeight(conductorPane)) - 1

\* NextRepo and NextSection invoked n times in a row.
RECURSIVE nextRepoTimes(_, _)
nextRepoTimes(m, n) == IF n = 0 THEN m ELSE nextRepoTimes(NextRepo(m), n - 1)

RECURSIVE nextSectionTimes(_, _)
nextSectionTimes(m, n) == IF n = 0 THEN m ELSE nextSectionTimes(NextSection(m), n - 1)

\* The header of the group row c lies in: the last header at or above c.
groupHeaderOf(headers, c) ==
    CHOOSE h \in headers : h <= c /\ \A g \in headers : g <= c => g <= h

dashboardHeaders(m) == {m.repoHeaders[k] : k \in 1..Len(m.repoHeaders)}

conductorHeaders(m) ==
    {i \in 0..(Len(m.flatItems) - 1) : isHeader(At(m.flatItems, i).Kind)}

\* C13: the next-group jump invoked N times, N the number of group headers
\* of the list (Dashboard NextRepo over repo headers, Conductor NextSection
\* over section headers), leaves the cursor on the header of the group it
\* started in; with no group header the jump runs and changes nothing.
NextGroupJumpCycles ==
    /\ IF dashboardHeaders(dashboard) = {}
       THEN NextRepo(dashboard) = dashboard
       ELSE nextRepoTimes(dashboard, Cardinality(dashboardHeaders(dashboard))).cursor
              = groupHeaderOf(dashboardHeaders(dashboard), dashboard.cursor)
    /\ IF conductorHeaders(conductorPane) = {}
       THEN /\ ~NextSectionPanics(conductorPane)
            /\ NextSection(conductorPane) = conductorPane
       ELSE nextSectionTimes(conductorPane, Cardinality(conductorHeaders(conductorPane))).cursor
              = groupHeaderOf(conductorHeaders(conductorPane), conductorPane.cursor)

----------------------------------------------------------------------------
(* The graph pane: one project, its first repo's graph *)

GraphConfigs == { Config(OneProject, TRUE, TRUE, "nil", "nil") }

InitGraph == \E c \in GraphConfigs : NewApp(c)

NextGraph ==
    \/ WindowSizeMsg
    \/ StatusRefreshedMsg
    \/ ConductorFetched
    \/ GraphFetchedMsg
    \/ CommitDetailFetchedMsg
    \/ commitContextMsg
    \/ DashboardFocusRight
    \/ GraphKeyIn({"Down", "Up"})

SpecGraph == InitGraph /\ [][NextGraph]_vars

\* C5: a commit-detail response whose hash differs from the commit selected
\* in the graph pane changes neither the detail the pane shows nor the
\* recorded last-fetched hash.
StaleDetailDiscarded ==
    [][\A c \in pending :
          (/\ c.type = "CommitDetailFetchedMsg"
           /\ c.Hash # SelectedHash(graphPane)
           /\ DeliverCommitDetail(c))
          => (/\ graphPane'.detail = graphPane.detail
              /\ lastDetailHash' = lastDetailHash)]_vars

\* C6: once every in-flight response has been delivered, a commit detail
\* shown in the graph pane is the detail of the selected commit.
LastRequestWins ==
    (pending = {} /\ graphPane.detail # Nil)
        => GitAbbrev(graphPane.detail.Hash) = SelectedHash(graphPane)

\* C15: a graph refresh that delivers the commit list the pane already
\* shows, for the repository it already shows, leaves the commit cursor on
\* the commit it was on.
GraphRefreshKeepsCursor ==
    [][(/\ GraphFetchedMsg
        /\ Len(graphPane.lines) > 0
        /\ graphPane'.repoPath = graphPane.repoPath
        /\ graphPane'.lines = graphPane.lines)
       => (/\ graphPane'.cursor = graphPane.cursor
           /\ SelectedHash(graphPane') = SelectedHash(graphPane))]_vars

----------------------------------------------------------------------------
(* The focus router: panels toggled and focused in a terminal that is
   resized, over a project without repos *)

RouterConfigs == { Config(EmptyProject, TRUE, TRUE, "nil", "nil") }

InitRouter == \E c \in RouterConfigs : NewApp(c)

NextRouter ==
    \/ WindowSizeMsg
    \/ StatusRefreshedMsg
    \/ ConductorFetched
    \/ KeyHelp
    \/ KeyCloseHelp
    \/ DashboardEnterProject
    \/ DashboardEscape
    \/ DashboardFocusRight
    \/ DashboardToggleGraph
    \/ DashboardToggleConductor
    \/ GraphFocusLeft
    \/ GraphFocusRight
    \/ GraphToggleGraph
    \/ GraphToggleConductor
    \/ ConductorFocusLeft
    \/ ConductorEscape
    \/ ConductorToggleGraph
    \/ ConductorToggleConductor
    \/ ConductorKeyIn({"FocusDown", "FocusUp", "Down"})

SpecRouter == InitRouter /\ [][NextRouter]_vars

\* C7: a step that hides the panel the focus is on (the graph while the focus
\* is on the graph; the graph or the conductor while the focus is on the
\* conductor) ends with the focus on the dashboard.
HidingFocusedPanelResetsFocus ==
    [][(\/ focusPanel = "FocusGraph" /\ showGraph /\ ~showGraph'
        \/ focusPanel = "FocusConductor" /\ showGraph /\ ~showGraph'
        \/ focusPanel = "FocusConductor" /\ showConductor /\ ~showConductor')
       => focusPanel' = "FocusDashboard"]_vars

\* The conductor has the focus, both panels are shown, and the toggle that
\* hides the conductor acts and returns the focus to the dashboard.
ConductorHiddenWhileFocused ==
    /\ focusPanel = "FocusConductor"
    /\ showGraph /\ showConductor
    /\ ENABLED (ConductorToggleConductor /\ focusPanel' = "FocusDashboard")

\* C8: the focus never designates a panel the layout does not render.
FocusOnRenderedPanel ==
    /\ focusPanel = "FocusGraph" => (showGraph /\ width > 40)
    /\ focusPanel = "FocusConductor" => (showGraph /\ showConductor /\ width > 80)

----------------------------------------------------------------------------
(* The overlays: project manager, branch picker, commit view and feature
   linker over a project with two repos, the graph hidden *)

OverlayConfigs == { Config(OneProject, FALSE, FALSE, "false", "nil") }

InitOverlay == \E c \in OverlayConfigs : NewApp(c)

\* git status reporting staged files in the first repo.
StagedSnapshot ==
    << [Files |-> FilesA, Error |-> FALSE], [Files |-> <<>>, Error |-> FALSE] >>

\* How many commands the keys of this specification leave in flight at once.
MaxInFlight == 1

Calm == Cardinality(pending) < MaxInFlight

\* The keys pressed on an overlay: one that moves its cursor, the one that
\* accepts and the one that closes.
OverlayKeys == {"j", "enter", "esc"}

NextOverlay ==
    \/ WindowSize({<<100, 24>>})
    \/ StatusRefreshed({StagedSnapshot})
    \/ KeyHelp
    \/ KeyCloseHelp
    \/ DashboardEnterProject
    \/ DashboardEscape
    \/ DashboardDown
    \/ DashboardProjectManager
    \/ ProjectManagerKeyIn(OverlayKeys)
    \/ Calm /\ DashboardBranch
    \/ BranchesFetchedMsg
    \/ Calm /\ BranchPickerKeyIn(OverlayKeys)
    \/ CloseBranchPickerMsg
    \/ BranchSwitchedMsg
    \/ DashboardCommit
    \/ Calm /\ CommitKey
    \/ CloseCommitMsg
    \/ CommitCompleteMsg
    \/ featureMatchMsg
    \/ Calm /\ FeatureLinkerKeyIn(OverlayKeys)
    \/ FeatureLinkedMsg
    \/ conductorDataMsg

SpecOverlay == InitOverlay /\ [][NextOverlay]_vars

\* A modal overlay is present.
OverlayPresent ==
    \/ featureLinker.visible
    \/ activeView \in {"BranchPickerView", "ProjectManagerView"}

\* A keystroke handled while an overlay is present.
OverlayKeystroke ==
    \/ KeyHelp
    \/ KeyCloseHelp
    \/ ProjectManagerKey
    \/ BranchPickerKey
    \/ FeatureLinkerKey

\* C9: while an overlay is present no keystroke changes the focus, the help
\* flag or the dashboard cursor.
OverlayShadowsKeys ==
    [][(OverlayPresent /\ OverlayKeystroke)
       => (/\ showHelp' = showHelp
           /\ focusPanel' = focusPanel
           /\ graphFocused' = graphFocused
           /\ dashboard'.cursor = dashboard.cursor)]_vars

----------------------------------------------------------------------------
(* The dashboard list of one project whose first repo has files at the
   root, in folders, documents, and one file changed both in the index and
   in the worktree; folder grouping, docs grouping and the priority rules
   vary with the configuration *)

\* git status --porcelain for the first repo: "MM README.md", then a/z.md,
\* ab.md, lib/z.go, main.go, "M  src/a.go", src/b.go and "M  src/c.go".
ListFilesA ==
    << FileEntry(<<82, 69, 65, 68, 77, 69, 46, 109, 100>>, "Staged"),
       FileEntry(<<82, 69, 65, 68, 77, 69, 46, 109, 100>>, "Unstaged"),
       FileEntry(<<97, 47, 122, 46, 109, 100>>, "Unstaged"),
       FileEntry(<<97, 98, 46, 109, 100>>, "Unstaged"),
       FileEntry(<<108, 105, 98, 47, 122, 46, 103, 111>>, "Unstaged"),
       FileEntry(<<109, 97, 105, 110, 46, 103, 111>>, "Unstaged"),
       FileEntry(<<115, 114, 99, 47, 97, 46, 103, 111>>, "Staged"),
       FileEntry(<<115, 114, 99, 47, 98, 46, 103, 111>>, "Unstaged"),
       FileEntry(<<115, 114, 99, 47, 99, 46, 103, 111>>, "Staged") >>

ListSnapshots ==
    { << [Files |-> ListFilesA, Error |-> FALSE], [Files |-> <<>>, Error |-> FALSE] >>,
      << [Files |-> <<>>, Error |-> FALSE], [Files |-> <<>>, Error |-> TRUE] >> }

\* [[display.priority]] of a user: .go under lib first, every other .go
\* last, then anything under src first.
CustomPriorityRules ==
    << [Tier |-> 1, Extensions |-> << <<46, 103, 111>> >>,
        Directories |-> << <<108, 105, 98>> >>],
       [Tier |-> 3, Extensions |-> << <<46, 103, 111>> >>, Directories |-> << >>],
       [Tier |-> 1, Extensions |-> << >>, Directories |-> << <<115, 114, 99>> >>] >>

ListConfigs ==
    { [Config(OneProject, gf, gd, "false", "nil") EXCEPT !.Display.Priority = rules] :
        gf \in BOOLEAN, gd \in BOOLEAN, rules \in {<<>>, CustomPriorityRules} }

InitList == \E c \in ListConfigs : NewApp(c)

NextList ==
    \/ WindowSize({<<100, 24>>})
    \/ StatusRefreshed(ListSnapshots)
    \/ DashboardEnterProject
    \/ DashboardEscape
    \/ DashboardDown
    \/ DashboardUp
    \/ DashboardOpen

SpecList == InitList /\ [][NextList]_vars

\* Both dimensions of a rule match the file: its extension set is empty or
\* holds the file's extension, its directory set is empty or holds one of
\* the file's directory names.
bothDimensionsMatch(rule, path) ==
    /\ \/ Len(rule.Extensions) = 0
       \/ filepathExt(path) \in {rule.Extensions[i] : i \in 1..Len(rule.Extensions)}
    /\ \/ Len(rule.Directories) = 0
       \/ \E name \in {stringsSplit(filepathDir(path))[j] :
                          j \in 1..Len(stringsSplit(filepathDir(path)))} :
             name \in {rule.Directories[i] : i \in 1..Len(rule.Directories)}

matchingRules(rules, path) == {k \in 1..Len(rules) : bothDimensionsMatch(rules[k], path)}

firstMatchTier(rules, path) ==
    IF matchingRules(rules, path) = {} THEN 2
    ELSE rules[CHOOSE k \in matchingRules(rules, path) :
                  \A j \in matchingRules(rules, path) : k <= j].Tier

\* The File items of the Staged and Unstaged groups in the list.
tieredItems(m) ==
    {i \in 0..(Len(m.flatItems) - 1) :
        At(m.flatItems, i).Kind = "File" /\ At(m.flatItems, i).Section # "docs"}

\* C18: resolveTier returns the tier of the first rule, in configuration
\* order, whose two dimensions both match the file, and tier 2 when no rule
\* matches; for every changed file of every repo, and in the Tier of every
\* file item the list shows.
ResolveTierFirstMatch ==
    /\ \A ri \in 0..(Len(dashboard.repos) - 1) :
          \A fi \in 0..(Len(At(dashboard.repos, ri).Files) - 1) :
             resolveTier(At(At(dashboard.repos, ri).Files, fi).Path, dashboard.priorityRules)
               = firstMatchTier(dashboard.priorityRules,
                                At(At(dashboard.repos, ri).Files, fi).Path)
    /\ \A i \in tieredItems(dashboard) :
          At(dashboard.flatItems, i).Tier
            = firstMatchTier(dashboard.priorityRules,
                             itemPath(dashboard, At(dashboard.flatItems, i)))

\* The list shows a file that two rules of different tiers match, with the
\* tier of the earlier rule, and a file that no rule matches.
TwoRulesMatchOneFile ==
    /\ \E i \in tieredItems(dashboard) :
          /\ At(dashboard.flatItems, i).Tier = 3
          /\ \E k \in matchingRules(dashboard.priorityRules,
                                    itemPath(dashboard, At(dashboard.flatItems, i))) :
                dashboard.priorityRules[k].Tier = 1
    /\ \E i \in tieredItems(dashboard) :
          matchingRules(dashboard.priorityRules,
                        itemPath(dashboard, At(dashboard.flatItems, i))) = {}

\* Rows i and i + 1 are files of one repo and one group with the same path.
equalKeyPair(m, i) ==
    /\ i + 1 < Len(m.flatItems)
    /\ At(m.flatItems, i).Kind = "File"
    /\ At(m.flatItems, i + 1).Kind = "File"
    /\ At(m.flatItems, i + 1).RepoIndex = At(m.flatItems, i).RepoIndex
    /\ At(m.flatItems, i + 1).Section = At(m.flatItems, i).Section
    /\ itemPath(m, At(m.flatItems, i + 1)) = itemPath(m, At(m.flatItems, i))

\* C12: the Dashboard flat list is a function of the repository data, the
\* project configuration, the collapse state and the display settings: once
\* the list is built, rebuilding again from them gives the list the panel
\* holds, whatever the cursor, the scroll offset and the previous list are;
\* files with equal sort keys stay in their source order.
RebuildDeterministic ==
    /\ Len(dashboard.flatItems) > 0 =>
          /\ dashboardRebuildFlatItems(dashboard).flatItems = dashboard.flatItems
          /\ dashboardRebuildFlatItems(
                [dashboard EXCEPT !.cursor = 0, !.scrollOffset = 0,
                                  !.flatItems = <<>>, !.repoHeaders = <<>>]).flatItems
               = dashboard.flatItems
    /\ \A i \in 0..(Len(dashboard.flatItems) - 1) :
          equalKeyPair(dashboard, i)
            => At(dashboard.flatItems, i).FileIndex < At(dashboard.flatItems, i + 1).FileIndex

\* The Documents group shows README.md twice: its staged change and its
\* unstaged change.
EqualKeysInList ==
    \E i \in 0..(Len(dashboard.flatItems) - 1) : equalKeyPair(dashboard, i)

\* File item b sorts before file item a: by directory when folder grouping
\* is on, then by the tier the items carry, then by path.
sortsBefore(m, b, a) ==
    sortFilesLessBy(m.display.GroupFolders, itemPath(m, b), itemPath(m, a),
                    filepathDir(itemPath(m, b)), filepathDir(itemPath(m, a)),
                    b.Tier, a.Tier)

\* The file rows of repo ri in the group section are in sorted order.
groupSorted(m, ri, section) ==
    \A i, j \in 0..(Len(m.flatItems) - 1) :
       (/\ i < j
        /\ At(m.flatItems, i).Kind = "File" /\ At(m.flatItems, j).Kind = "File"
        /\ At(m.flatItems, i).RepoIndex = ri /\ At(m.flatItems, j).RepoIndex = ri
        /\ At(m.flatItems, i).Section = section /\ At(m.flatItems, j).Section = section)
       => ~sortsBefore(m, At(m.flatItems, j), At(m.flatItems, i))

\* C17: within a repository each of the Staged, Unstaged and Docs groups is
\* emitted sorted by directory (only with folder grouping on), then by
\* ascending tier, then by lexicographic path.
GroupsSorted ==
    \A ri \in 0..(Len(dashboard.repos) - 1) :
       \A section \in {"staged", "unstaged", "docs"} : groupSorted(dashboard, ri, section)

\* The rows of the Staged and Unstaged groups that are files.
groupedFiles(m) ==
    {i \in 0..(Len(m.flatItems) - 1) :
        /\ At(m.flatItems, i).Kind = "File"
        /\ At(m.flatItems, i).Section \in {"staged", "unstaged"}}

\* Row j belongs to the group (repo and section) of row i.
sameGroup(m, i, j) ==
    /\ At(m.flatItems, j).RepoIndex = At(m.flatItems, i).RepoIndex
    /\ At(m.flatItems, j).Section = At(m.flatItems, i).Section

\* The file rows emitted before row i in its group.
emittedBefore(m, i) == {j \in groupedFiles(m) : j < i /\ sameGroup(m, i, j)}

\* File row i starts a run: it is the first file of its group, or its
\* directory differs from that of the file emitted before it.
startsRun(m, i) ==
    \/ emittedBefore(m, i) = {}
    \/ At(m.flatItems, CHOOSE j \in emittedBefore(m, i) :
                          \A k \in emittedBefore(m, i) : k <= j).Dir
         # At(m.flatItems, i).Dir

\* Row i - 1 is the FolderHeader of the directory of file row i.
headerBefore(m, i) ==
    /\ i >= 1
    /\ At(m.flatItems, i - 1).Kind = "FolderHeader"
    /\ sameGroup(m, i, i - 1)
    /\ At(m.flatItems, i - 1).Dir = At(m.flatItems, i).Dir

repoRows(m, ri) ==
    {i \in 0..(Len(m.flatItems) - 1) :
        At(m.flatItems, i).Kind # "ProjectHeader" /\ At(m.flatItems, i).RepoIndex = ri}

\* The repos the list shows.
shownRepos(m) == {ri \in 0..(Len(m.repos) - 1) : repoRows(m, ri) # {}}

\* The rows of repo ri in the group section and, for a folder, directory dir.
sectionRows(m, ri, section) == {i \in repoRows(m, ri) : At(m.flatItems, i).Section = section}

folderRows(m, ri, section, dir) ==
    {i \in sectionRows(m, ri, section) : At(m.flatItems, i).Dir = dir}

\* The files of repo ri that rebuildFlatItems puts in the group section.
groupFiles(m, ri, section) ==
    {fi \in 0..(Len(At(m.repos, ri).Files) - 1) :
        fileGroup(m, At(At(m.repos, ri).Files, fi)) = section}

\* The collapsed folders of repo ri that hold a file of the group section.
collapsedFolders(m, ri, section) ==
    {dir \in {filepathDir(At(At(m.repos, ri).Files, fi).Path) : fi \in groupFiles(m, ri, section)} :
        dir # <<46>> /\ MapGet(m.foldersCollapsed, folderKey(ri, dir), FALSE)}

\* Repo ri is listed with its groups: no error and not collapsed.
repoOpen(m, ri) == ~At(m.repos, ri).Error /\ ~MapGet(m.collapsed, ri, FALSE)

\* C16: in the Dashboard list a collapsed repository, a collapsed Documents
\* group and a collapsed folder each contribute their own header row, which
\* is selectable, and no row below it; a repository without changed files
\* contributes exactly its header row.
CollapsedParentsKeepHeader ==
    \A ri \in shownRepos(dashboard) :
       /\ Cardinality({i \in repoRows(dashboard, ri) :
                          At(dashboard.flatItems, i).Kind = "RepoHeader"}) = 1
       /\ (MapGet(dashboard.collapsed, ri, FALSE) \/ Len(At(dashboard.repos, ri).Files) = 0)
             => Cardinality(repoRows(dashboard, ri)) = 1
       /\ (/\ repoOpen(dashboard, ri)
           /\ groupFiles(dashboard, ri, "docs") # {}
           /\ MapGet(dashboard.docsCollapsed, ri, TRUE))
             => /\ Cardinality(sectionRows(dashboard, ri, "docs")) = 1
                /\ \A i \in sectionRows(dashboard, ri, "docs") :
                      At(dashboard.flatItems, i).Kind = "DocHeader"
       /\ \A section \in {"staged", "unstaged"} :
             (repoOpen(dashboard, ri) /\ dashboard.display.GroupFolders)
               => \A dir \in collapsedFolders(dashboard, ri, section) :
                     /\ Cardinality(folderRows(dashboard, ri, section, dir)) = 1
                     /\ \A i \in folderRows(dashboard, ri, section, dir) :
                           At(dashboard.flatItems, i).Kind = "FolderHeader"
       /\ \A i \in repoRows(dashboard, ri) :
             At(dashboard.flatItems, i).Kind \in {"RepoHeader", "DocHeader", "FolderHeader"}
               => ~isNonSelectable(At(dashboard.flatItems, i).Kind)

\* The project is entered; its second repo is expanded and has no changed
\* file, its first repo is expanded with a collapsed folder and the
\* collapsed Documents group.
CollapsedGroupsShown ==
    /\ dashboard.activeProject = 0
    /\ Len(dashboard.repos) = 2
    /\ repoOpen(dashboard, 1) /\ Len(At(dashboard.repos, 1).Files) = 0
    /\ repoOpen(dashboard, 0)
    /\ dashboard.display.GroupFolders
    /\ collapsedFolders(dashboard, 0, "unstaged") # {}
    /\ groupFiles(dashboard, 0, "docs") # {}
    /\ MapGet(dashboard.docsCollapsed, 0, TRUE)

----------------------------------------------------------------------------
(* Data refreshes between the user's collapse toggles: one project with
   folder and docs grouping, the graph and the conductor panel shown *)

RefreshConfigs == { Config(OneProject, TRUE, TRUE, "nil", "true") }

RefreshSnapshots ==
    { << [Files |-> FilesA, Error |-> FALSE], [Files |-> <<>>, Error |-> FALSE] >>,
      << [Files |-> <<>>, Error |-> FALSE], [Files |-> <<>>, Error |-> FALSE] >> }

\* The conductor data a fetch delivers: a session with one feature, or none.
RefreshData == {ConductorSession, Nil}

InitRefresh == \E c \in RefreshConfigs : NewApp(c)

NextRefresh ==
    \/ WindowSize({<<100, 24>>})
    \/ StatusRefreshed(RefreshSnapshots)
    \/ DashboardEnterProject
    \/ DashboardDown
    \/ DashboardOpen
    \/ DashboardFocusRight
    \/ GraphFocusRight
    \/ pollTickMsg
    \/ conductorDataMsg /\ conductorPane'.data \in RefreshData
    \/ ConductorKeyIn({"Open", "Down"})

SpecRefresh == InitRefresh /\ [][NextRefresh]_vars

\* The directories of the changed files of repo ri.
repoDirs(m, ri) ==
    {filepathDir(At(At(m.repos, ri).Files, fi).Path) :
        fi \in 0..(Len(At(m.repos, ri).Files) - 1)}

\* Every repo (by index) that exists before and after the step is collapsed
\* iff it was, and so are its Documents group and each of its folders that
\* exists before and after.
reposKeepCollapse ==
    \A ri \in 0..(Len(dashboard.repos) - 1) :
       ri < Len(dashboard'.repos)
         => /\ IsCollapsed(dashboard', ri) = IsCollapsed(dashboard, ri)
            /\ isDocsCollapsed(dashboard', ri) = isDocsCollapsed(dashboard, ri)
            /\ \A dir \in repoDirs(dashboard, ri) \cap repoDirs(dashboard', ri) :
                  isFolderCollapsed(dashboard', ri, dir) = isFolderCollapsed(dashboard, ri, dir)

\* Every conductor section is collapsed after the step iff it was.
sectionsKeepCollapse ==
    \A kind \in {"FeatureHeader", "SessionHeader", "QualityHeader", "MemoryHeader"} :
       condCollapsed(conductorPane', kind) = condCollapsed(conductorPane, kind)

\* C11: a data refresh keeps the collapse choices: a step that is a status
\* refresh (SetRepos) keeps those of the repos, docs groups and folders, a
\* step that delivers conductor data (SetData) those of the sections.
RefreshKeepsCollapse ==
    [][/\ reposKeepCollapse \/ ~StatusRefreshed(RefreshSnapshots)
       /\ sectionsKeepCollapse \/ ~conductorDataMsg]_vars

\* The user has expanded the first repo, collapsed its folder src and
\* collapsed the conductor's features section, and refreshes have since
\* delivered a status without changed files and no conductor data.
RefreshedAfterToggles ==
    /\ Len(dashboard.repos) = 2
    /\ ~IsCollapsed(dashboard, 0)
    /\ isFolderCollapsed(dashboard, 0, <<115, 114, 99>>)
    /\ Len(At(dashboard.repos, 0).Files) = 0
    /\ condCollapsed(conductorPane, "FeatureHeader")
    /\ conductorPane.data = Nil

----------------------------------------------------------------------------
(* The project manager edits the configured projects while the dashboard
   shows them. *)

ManageConfigs == { Config(TwoProjects, FALSE, FALSE, "false", "nil") }

InitManage == \E c \in ManageConfigs : NewApp(c)

\* The keys pressed in the project manager: delete the project under the
\* cursor, confirm, decline, close.
ManageKeys == {"x", "y", "n", "esc"}

NextManage ==
    \/ WindowSize({<<100, 24>>})
    \/ StatusRefreshed(StatusSnapshots)
    \/ DashboardEnterProject
    \/ DashboardEscape
    \/ DashboardDown
    \/ DashboardOpen
    \/ DashboardProjectManager
    \/ ProjectManagerKeyIn(ManageKeys)

SpecManage == InitManage /\ [][NextManage]_vars

\* C21: whenever the dashboard is to process a keystroke in all-projects
\* mode (no active project, at least one project configured), every item of
\* its flat list is a project header.
AllProjectsListsProjects ==
    (DashFocus /\ AllProjectsMode)
        => \A i \in 1..Len(dashboard.flatItems) :
              dashboard.flatItems[i].Kind = "ProjectHeader"

----------------------------------------------------------------------------
(* The focus transitions of the dashboard view: the three panels with data
   in them, in a narrow and in a wide terminal, with the graph and the
   conductor each enabled or not by the configuration. *)

FocusConfigs ==
    { Config(OneProject, FALSE, FALSE, sg, sc) : sg, sc \in {"true", "false"} }

InitFocus == \E c \in FocusConfigs : NewApp(c)

NextFocus ==
    \/ WindowSize({<<30, 24>>, <<100, 24>>})
    \/ Calm /\ StatusRefreshed({StagedSnapshot})
    \/ Calm /\ DashboardEnterProject
    \/ GraphFetchedMsg
    \/ CommitDetailFetchedMsg
    \/ commitContextMsg
    \/ ConductorFetched
    \/ DashboardFocusRight
    \/ GraphFocusLeft
    \/ GraphFocusRight
    \/ Calm /\ GraphKeyIn({"Down", "FocusDown"})
    \/ ConductorFocusLeft
    \/ ConductorEscape
    \/ ConductorKeyIn({"FocusDown"})

SpecFocus == InitFocus /\ [][NextFocus]_vars

GraphFocusRightNeedsConductor ==
    [][(GraphFocusRight /\ focusPanel = "FocusGraph")
       => /\ focusPanel' = "FocusConductor" => (showConductor /\ width > 80)
          /\ ~(showConductor /\ width > 80) => focusPanel' = "FocusGraph"]_vars

\* The graph has the focus in a terminal too narrow for three columns, the
\* conductor is enabled, and focus-right acts and leaves the focus on the
\* graph.
FocusRightInNarrowTerminal ==
    /\ focusPanel = "FocusGraph"
    /\ showConductor
    /\ width > 0 /\ width <= 80
    /\ ENABLED (GraphFocusRight /\ focusPanel' = "FocusGraph")

\* C24: with the focus on the conductor, Escape in the detail section keeps
\* the focus on the conductor and returns the pane to its list section;
\* Escape in the list section moves the focus to the dashboard.
ConductorEscapePopsSection ==
    [][ConductorEscape
       => IF conductorPane.activeSection = "DetailSection"
          THEN /\ focusPanel' = "FocusConductor"
               /\ conductorPane'.activeSection = "ListSection"
          ELSE focusPanel' = "FocusDashboard"]_vars

\* The conductor has the focus and shows its detail section, and Escape acts
\* and returns it to the list section.
EscapeFromConductorDetail ==
    /\ focusPanel = "FocusConductor"
    /\ conductorPane.activeSection = "DetailSection"
    /\ ENABLED (ConductorEscape /\ conductorPane'.activeSection = "ListSection")

\* The dashboard view receives the keys: no overlay, no help screen.
FocusState == DashRouted

\* One press of Escape is possible and every outcome of it has the focus on
\* the dashboard.
OneEscapeToDashboard ==
    IF focusPanel = "FocusConductor"
    THEN /\ ENABLED ConductorEscape
         /\ ~ENABLED (ConductorEscape /\ focusPanel' # "FocusDashboard")
    ELSE /\ ENABLED GraphFocusLeft
         /\ ~ENABLED (GraphFocusLeft /\ focusPanel' # "FocusDashboard")

\* C25: the focus can always be escaped.  In every focus state of the
\* dashboard view with the focus on the graph (in either section of its
\* pane) or on the conductor in its list section, one press of Escape puts
\* the focus on the dashboard; with the conductor in its detail section one
\* press leads to the conductor in its list section, still a focus state, so
\* two presses do.
FocusAlwaysEscapable ==
    /\ [](FocusState /\ focusPanel # "FocusDashboard"
          /\ ~(focusPanel = "FocusConductor"
               /\ conductorPane.activeSection = "DetailSection")
          => OneEscapeToDashboard)
    /\ [][(ConductorEscape /\ conductorPane.activeSection = "DetailSection")
          => (/\ focusPanel' = "FocusConductor"
              /\ conductorPane'.activeSection = "ListSection"
              /\ FocusState')]_vars

\* The graph has the focus while its pane shows the files of a commit, and
\* Escape acts and puts the focus on the dashboard.
EscapeFromGraphFiles ==
    /\ focusPanel = "FocusGraph"
    /\ graphPane.activeSection = "FilesSection"
    /\ ENABLED (GraphFocusLeft /\ focusPanel' = "FocusDashboard")

----------------------------------------------------------------------------
(* The commit detail of the graph pane, under SpecGraph *)

\* The commit-detail requests a step adds to those in flight.
detailRequestsIssued ==
    { c \in pending' \ pending : c.type = "CommitDetailFetchedMsg" }

\* C26: a cursor move in the commit list issues a commit-detail request only
\* for the newly selected commit, and only if that commit has a hash, is not
\* the commit selected before the move and is not the commit whose detail
\* was fetched last; moving back onto the last-fetched commit issues none.
DetailRequestOnlyForNewCommit ==
    [][(\A c \in detailRequestsIssued :
           /\ c.Hash = SelectedHash(graphPane')
           /\ c.Hash # <<>>
           /\ c.Hash # SelectedHash(graphPane)
           /\ c.Hash # lastDetailHash)
       \/ ~GraphKeyIn({"Down", "Up"})]_vars

\* The cursor is off the commit whose detail was fetched last, and a move
\* puts it back on that commit and issues no request.
ReenterLastFetchedCommit ==
    /\ lastDetailHash # <<>>
    /\ SelectedHash(graphPane) # lastDetailHash
    /\ ENABLED (/\ GraphKeyIn({"Down", "Up"})
                /\ SelectedHash(graphPane') = lastDetailHash
                /\ pending' = pending)

\* C27: when a graph fetch or a commit-detail fetch completes with an error,
\* the graph pane shows its no-data state for the failed item: a step that
\* consumes the response to a graph request and does not install a fetched
\* graph leaves the pane without lines, and a step that consumes the response
\* to a detail request and does not install that commit's detail leaves the
\* pane without a detail.
FetchErrorShowsNoData ==
    [][/\ \A c \in pending :
             (/\ c.type = "GraphFetchedMsg"
              /\ GraphFetchedMsg
              /\ pending' = pending \ {c}
              /\ \A lines \in GraphSnapshots :
                    graphPane' # SetGraph(graphPane, lines, c.RepoPath))
             => Len(graphPane'.lines) = 0
       /\ \A c \in pending :
             (/\ c.type = "CommitDetailFetchedMsg"
              /\ CommitDetailFetchedMsg
              /\ pending' = pending \ {c}
              /\ graphPane' # SetCommitDetail(graphPane, CommitDetailOf(c.Hash)))
             => graphPane'.detail = Nil]_vars

----------------------------------------------------------------------------
(* The scroll offset of the dashboard list, under SpecDash *)

\* C28: after every dashboard operation the scroll offset is at most
\* max(0, len(items) - listHeight): the list is never scrolled past its end,
\* also after a collapse or a refresh that shortens it.
ScrollOffsetWithinList ==
    dashboard.scrollOffset
        <= Max(0, Len(dashboard.flatItems) - dashboardListHeight(dashboard))

----------------------------------------------------------------------------
(* The detail section of the conductor pane, under SpecCond *)

\* C29: whenever the conductor pane is tall enough to have a detail viewport
\* (its height exceeds 15), after every cursor move, section jump, collapse
\* toggle, data refresh and resize the content of the detail viewport is the
\* detail rendering of the item under the list cursor.
DetailShowsCursorItem ==
    conductorPane.height > 15
        => conductorPane.detailVP.Content
              = renderDetail(conductorPane, conductorPane.width,
                             sectionSplit(conductorPane)[2]).Text

\* The pane is tall enough, its cursor has moved down to an item of the
\* conductor data, and the detail viewport shows that item.
DetailOfMovedCursor ==
    /\ conductorPane.height > 15
    /\ conductorPane.cursor > 0
    /\ conductorPane.cursor < Len(conductorPane.flatItems)
    /\ conductorPane.data # Nil
    /\ conductorPane.detailVP.Content
          = [Item |-> At(conductorPane.flatItems, conductorPane.cursor),
             Data |-> conductorPane.data]

\* The conductor pane with the focus on it: every key of the pane, Escape,
\* data arriving, and terminals too low and tall enough for the detail
\* viewport.
DetailConfigs == { Config(EmptyProject, FALSE, FALSE, "true", "false") }

InitDetail == \E c \in DetailConfigs : NewApp(c)

NextDetail ==
    \/ WindowSize({<<100, SmallHeight>>, <<100, 24>>})
    \/ StatusRefreshed({<<>>})
    \/ DashboardToggleConductor
    \/ ConductorFetchedFrom({ConductorSession, ConductorNotes})
    \/ DashboardFocusRight
    \/ GraphFocusRight
    \/ ConductorEscape
    \/ ConductorKey

SpecDetail == InitDetail /\ [][NextDetail]_vars

\* The list part of the conductor pane is as it was before the step.
conductorListKept ==
    /\ conductorPane'.cursor = conductorPane.cursor
    /\ conductorPane'.scrollOffset = conductorPane.scrollOffset
    /\ conductorPane'.collapsed = conductorPane.collapsed

\* C30: while the conductor pane is in its detail section, Up and Down change
\* nothing but the detail viewport, no key changes the list cursor, the list
\* scroll offset or the collapse state, and Escape and the focus-up key each
\* return the pane to its list section.
DetailSectionKeys ==
    /\ [](CondFocus /\ conductorPane.activeSection = "DetailSection"
          => /\ ENABLED (ConductorEscape
                         /\ conductorPane'.activeSection = "ListSection")
             /\ ENABLED (ConductorKeyIn({"FocusUp"})
                         /\ conductorPane'.activeSection = "ListSection"))
    /\ [][conductorPane.activeSection = "DetailSection"
          => /\ (ConductorKey \/ ConductorEscape) => conductorListKept
             /\ ConductorKeyIn({"Down", "Up"})
                   => [conductorPane' EXCEPT !.detailVP = conductorPane.detailVP]
                         = conductorPane
             /\ (ConductorKeyIn({"FocusUp"}) \/ ConductorEscape)
                   => conductorPane'.activeSection = "ListSection"]_vars

\* The pane is in its detail section with the list cursor on the memory
\* below the first items, and Down has scrolled the detail viewport.
DetailScrolledDown ==
    /\ focusPanel = "FocusConductor"
    /\ conductorPane.activeSection = "DetailSection"
    /\ conductorPane.cursor > 0
    /\ conductorPane.detailVP.YOffset > 0

----------------------------------------------------------------------------
(* The files section of the graph pane: commits whose files are expanded
   while repos are visited, statuses refreshed and responses delivered *)

FilesConfigs == { Config(OneProject, FALSE, FALSE, "true", "false") }

InitFiles == \E c \in FilesConfigs : NewApp(c)

\* git status reporting two clean repos.
QuietSnapshot ==
    << [Files |-> <<>>, Error |-> FALSE], [Files |-> <<>>, Error |-> FALSE] >>

\* No more commands are started while more than MaxInFlight are running.
Quiet == Cardinality(pending) <= MaxInFlight

\* GetGraph answers with the three-line graph, or fails.
FullGraphFetched == GraphFetchedMsg /\ Len(graphPane'.lines) # 1

NextFiles ==
    \/ WindowSize({<<100, 24>>})
    \/ Quiet /\ StatusRefreshed({QuietSnapshot})
    \/ ConductorFetchedFrom({})
    \/ FullGraphFetched
    \/ CommitDetailFetchedMsg
    \/ commitContextMsg /\ graphPane'.commitContext = Nil
    \/ CommitFileDiffFetchedMsg
    \/ DashboardFocusRight
    \/ GraphFocusLeft
    \/ Quiet /\ GraphKeyIn({"Down", "Up", "FocusDown", "FocusUp", "Open"})

SpecFiles == InitFiles /\ [][NextFiles]_vars

\* C31: every diff in the graph pane's cache is the diff of a file of the
\* commit whose detail the pane displays; a response requested for a commit
\* displayed before never becomes a cached diff of the current commit.
CachedDiffsOfShownCommit ==
    \A path \in DOMAIN graphPane.fileDiffs :
        /\ graphPane.detail # Nil
        /\ graphPane.fileDiffs[path].Hash = graphPane.detail.Hash

\* What the user sees and steers in the files section of the graph pane.
filesInteraction(m) ==
    <<m.activeSection, m.cursor, m.detail, m.fileCursor, m.fileExpanded>>

\* C33: while the graph pane is focused and in its files section, a status
\* refresh or a graph response leaves the pane's section, commit cursor,
\* displayed detail, file cursor and expanded files as they are.
FilesSectionUndisturbed ==
    [][\/ filesInteraction(graphPane') = filesInteraction(graphPane)
       \/ ~(/\ focusPanel = "FocusGraph"
            /\ graphPane.activeSection = "FilesSection"
            /\ (StatusRefreshed({QuietSnapshot}) \/ GraphFetchedMsg))]_vars

----------------------------------------------------------------------------
(* The repository the graph tracks: the cursor travels between the repos of
   a project while graph responses are on their way *)

InitTrack == \E c \in FilesConfigs : NewApp(c)

NextTrack ==
    \/ WindowSize({<<100, 24>>})
    \/ Calm /\ StatusRefreshed({QuietSnapshot})
    \/ Calm /\ DashboardEnterProject
    \/ Calm /\ DashboardEscape
    \/ Quiet /\ DashboardNextRepo
    \/ Quiet /\ DashboardPrevRepo
    \/ ConductorFetchedFrom({})
    \/ GraphFetchedMsg

SpecTrack == InitTrack /\ [][NextTrack]_vars

\* C32: a graph response changes the graph pane only if it is the response
\* for the repository requested last (graphRepo); afterwards the pane shows
\* the graph of that repository and of no other.
GraphOfTrackedRepo ==
    [][\/ graphPane'.repoPath = graphRepo
       \/ ~(GraphFetchedMsg /\ graphPane' # graphPane)]_vars

----------------------------------------------------------------------------
(* The diff view: the diff key of the dashboard, the response that opens
   the view, and the keys of the view *)

\* item.File.Path and item.Repo.Path of a dashboard item whose pointers are
\* set.
ItemFilePath(dash, item) == At(At(dash.repos, item.Repo).Files, item.File).Path

ItemRepoPath(dash, item) == At(dash.repos, item.Repo).Path

overlays == <<featureLinker, commitView, branchPicker, projectManager>>

\* The diff key in project-detail mode: fetchDiffCmd for the file under the
\* cursor.
DashboardDiff ==
    /\ DashFocus /\ ~AllProjectsMode
    /\ LET item == SelectedItem(dashboard)
       IN  pending' =
              IF SelectedItemOk(dashboard) /\ item.Kind = "File"
              THEN pending \cup {Msg("DiffFetchedMsg", ItemRepoPath(dashboard, item), <<>>,
                                     ItemFilePath(dashboard, item))}
              ELSE pending
    /\ UNCHANGED <<layout, dashboard, overlays, activeView, showHelp, feedback,
                   graphRepo, conductorRepo, diffAndPush>>

\* DiffFetchedMsg: unless git failed, the diff view opens, labelled with
\* the file and the repo of the item that is selected now.  item.File
\* and item.Repo are pointers: reading through a nil one panics.
DiffFetchedMsg ==
    /\ ~crashed
    /\ \E c \in pending :
          /\ c.type = "DiffFetchedMsg"
          /\ pending' = pending \ {c}
          /\ \/ UNCHANGED <<activeView, diffView, crashed>>
             \/ LET item == SelectedItem(dashboard)
                IN  IF item.File = -1 \/ item.Repo = -1
                    THEN crashed' = TRUE /\ UNCHANGED <<activeView, diffView>>
                    ELSE /\ activeView' = "DiffView"
                         /\ diffView' = diffviewSetContent(diffView,
                                            ItemFilePath(dashboard, item),
                                            ItemRepoPath(dashboard, item))
                         /\ UNCHANGED crashed
    /\ UNCHANGED <<cfg, dashboard, conductorPane, graphPane, overlays, showHelp,
                   feedback, showGraph, showConductor, graphFocused, focusPanel,
                   graphRepo, lastDetailHash, conductorRepo, width, height,
                   spinners, pushingRepoIdx>>

\* The keys of the diff view the router handles itself.
DiffKeys == {"esc", "Stage", "Unstage"}

\* handleDiffKey: Escape asks for the view to close; Stage and Unstage run
\* git on the file of the item selected in the dashboard.
DiffKeyIn(keys) ==
    /\ Routed /\ activeView = "DiffView"
    /\ \E k \in keys \cap DiffKeys :
          LET item == SelectedItem(dashboard)
          IN  pending' =
                 IF k = "esc"
                 THEN pending \cup {Msg("CloseDiffMsg", "", <<>>, "")}
                 ELSE IF SelectedItemOk(dashboard) /\ item.Kind = "File"
                 THEN pending \cup
                        {Msg(IF k = "Stage" THEN "stageFileCmd" ELSE "unstageFileCmd",
                             ItemRepoPath(dashboard, item), <<>>,
                             ItemFilePath(dashboard, item))}
                 ELSE pending
    /\ UNCHANGED <<layout, dashboard, overlays, activeView, showHelp, feedback,
                   graphRepo, conductorRepo, diffAndPush>>

DiffKey == DiffKeyIn(DiffKeys)

\* CloseDiffMsg: back to the dashboard (the status refresh it asks for is
\* delivered by StatusRefreshed).
CloseDiffMsg ==
    /\ ~crashed
    /\ \E c \in pending :
          /\ c.type = "CloseDiffMsg"
          /\ pending' = pending \ {c}
    /\ activeView' = "DashboardView"
    /\ UNCHANGED <<layout, dashboard, overlays, showHelp, feedback,
                   graphRepo, conductorRepo, diffAndPush>>

\* FileStageToggledMsg: git has staged or unstaged the file; the status
\* refresh it asks for is delivered by StatusRefreshed.
FileStageToggledMsg ==
    /\ ~crashed
    /\ \E c \in pending :
          /\ c.type \in {"stageFileCmd", "unstageFileCmd"}
          /\ pending' = pending \ {c}
    /\ UNCHANGED <<layout, dashboard, overlays, activeView, showHelp, feedback,
                   graphRepo, conductorRepo, diffAndPush>>

DiffConfigs == { Config(OneProject, FALSE, FALSE, "false", "false") }

InitDiff == \E c \in DiffConfigs : NewApp(c)

\* git status: files in the first repo, a file in the first repo only after
\* the others were committed, nothing at all.
DiffSnapshots ==
    { StagedSnapshot,
      << [Files |-> FilesB, Error |-> FALSE], [Files |-> <<>>, Error |-> FALSE] >>,
      QuietSnapshot }

NextDiff ==
    \/ WindowSize({<<100, 24>>})
    \/ StatusRefreshed(DiffSnapshots)
    \/ DashboardEnterProject
    \/ DashboardDown
    \/ DashboardUp
    \/ DashboardOpen
    \/ Calm /\ DashboardDiff
    \/ DiffFetchedMsg
    \/ Calm /\ DiffKey
    \/ CloseDiffMsg
    \/ FileStageToggledMsg

SpecDiff == InitDiff /\ [][NextDiff]_vars

\* The diff view is opened or relabelled in this step.
diffViewShown ==
    activeView' = "DiffView" /\ (activeView # "DiffView" \/ diffView' # diffView)

\* C34: handling a DiffFetchedMsg never panics, and when it opens the diff
\* view the view is labelled with the file and the repo the diff was
\* requested for, whatever cursor moves and status refreshes came between
\* the diff key and the response.
DiffResponseShowsRequestedFile ==
    [][\/ /\ ~crashed'
          /\ diffViewShown =>
                \E c \in pending \ pending' :
                    diffView'.file = c.FilePath /\ diffView'.repoPath = c.RepoPath
       \/ ~DiffFetchedMsg]_vars

\* The git commands started in this step by the stage and unstage keys.
stageCommandsIssued ==
    { c \in pending' \ pending : c.type \in {"stageFileCmd", "unstageFileCmd"} }

\* C35: in the diff view the stage and unstage keys run git on the file the
\* view displays, whatever status refreshes were handled while it is open.
StageActsOnShownFile ==
    [][\/ \A c \in stageCommandsIssued :
             c.FilePath = diffView.file /\ c.RepoPath = diffView.repoPath
       \/ ~DiffKey]_vars

----------------------------------------------------------------------------
(* The conductor panel's sections and the height of the panel *)

\* C36: the conductor panel is in its detail section only while the detail
\* viewport exists, that is while the panel is more than 15 lines high.
DetailSectionHasViewport ==
    conductorPane.activeSection = "DetailSection" => conductorPane.height > 15

----------------------------------------------------------------------------
(* The two focus fields of the router *)

\* C37: graphFocused is true exactly when focusPanel is FocusGraph, after
\* every handled key.
FocusFieldsAgree == graphFocused <=> focusPanel = "FocusGraph"

ToggleConfigs == { Config(OneProject, FALSE, FALSE, "nil", "nil") }

InitToggle == \E c \in ToggleConfigs : NewApp(c)

NextToggle ==
    \/ WindowSize({<<30, 24>>, <<100, 24>>})
    \/ Calm /\ StatusRefreshed({QuietSnapshot})
    \/ ConductorFetchedFrom({})
    \/ GraphFetchedMsg /\ Len(graphPane'.lines) = 1
    \/ DashboardEnterProject
    \/ DashboardEscape
    \/ DashboardFocusRight
    \/ DashboardToggleGraph
    \/ DashboardToggleConductor
    \/ GraphFocusLeft
    \/ GraphFocusRight
    \/ GraphToggleGraph
    \/ GraphToggleConductor
    \/ ConductorFocusLeft
    \/ ConductorEscape
    \/ ConductorToggleGraph
    \/ ConductorToggleConductor

SpecToggle == InitToggle /\ [][NextToggle]_vars

\* The graph pane has the focus, by both fields, with the conductor beside
\* it to move on to.
GraphFocusedBesideConductor ==
    /\ graphFocused /\ focusPanel = "FocusGraph"
    /\ showConductor /\ width > 80
    /\ ENABLED GraphFocusRight

----------------------------------------------------------------------------
(* The feature linker: a commit is made and the linker offers features *)

InitLinker == \E c \in OverlayConfigs : NewApp(c)

NextLinker ==
    \/ WindowSize({<<100, 24>>})
    \/ Calm /\ StatusRefreshed({StagedSnapshot})
    \/ DashboardEnterProject
    \/ DashboardCommit
    \/ Calm /\ CommitKey
    \/ CloseCommitMsg
    \/ CommitCompleteMsg
    \/ featureMatchMsg
    \/ Calm /\ FeatureLinkerKey
    \/ FeatureLinkedMsg
    \/ conductorDataMsg

SpecLinker == InitLinker /\ [][NextLinker]_vars

\* C38: "/" in the browse mode of the feature linker enters search mode
\* with an empty query: right after the key the list holds all features
\* and the cursor is on the first one.
SlashStartsEmptySearch ==
    [][\/ /\ featureLinker'.mode = "modeSearch"
          /\ featureLinker'.query = <<>>
          /\ featureLinker'.filtered = featureLinker.allItems
          /\ featureLinker'.cursor = 0
       \/ ~(featureLinker.mode = "modeBrowse" /\ FeatureLinkerKeyIn({"/"}))]_vars

----------------------------------------------------------------------------
(* Pushing: the push key, the ticks of the push spinner and the completion
   of the push *)

\* The push key in project-detail mode: the repo of the selected item is
\* pushed and the push loader started.  item.Repo is a pointer: reading
\* through a nil one panics.
DashboardPush ==
    /\ DashFocus /\ ~AllProjectsMode
    /\ LET item == SelectedItem(dashboard)
       IN  IF ~SelectedItemOk(dashboard)
           THEN UNCHANGED <<pushingRepoIdx, spinners, pending, crashed>>
           ELSE IF item.Repo = -1
           THEN crashed' = TRUE /\ UNCHANGED <<pushingRepoIdx, spinners, pending>>
           ELSE /\ pushingRepoIdx' = item.RepoIndex
                /\ spinners' = spinners \cup {"OpPush"}
                /\ pending' = pending \cup
                      {Msg("PushCompleteMsg", ItemRepoPath(dashboard, item), <<>>, "")}
                /\ UNCHANGED crashed
    /\ UNCHANGED <<cfg, dashboard, conductorPane, graphPane, overlays, activeView,
                   showHelp, feedback, showGraph, showConductor, graphFocused,
                   focusPanel, graphRepo, lastDetailHash, conductorRepo, width, height,
                   diffView>>

\* spinner.TickMsg while the push loader runs: the frame of the spinner is
\* handed to the header of the repo being pushed.
spinnerTickMsg ==
    /\ ~crashed
    /\ "OpPush" \in spinners
    /\ dashboard' = IF pushingRepoIdx >= 0
                    THEN SetRepoPushing(dashboard, pushingRepoIdx)
                    ELSE dashboard
    /\ UNCHANGED <<layout, overlays, activeView, showHelp, feedback, graphRepo,
                   conductorRepo, diffAndPush, pending>>

\* PushCompleteMsg: the push loader stops and the mark of the repo recorded
\* in pushingRepoIdx is cleared; success or failure is reported.
PushCompleteMsg ==
    /\ ~crashed
    /\ \E c \in pending :
          /\ c.type = "PushCompleteMsg"
          /\ pending' = pending \ {c}
    /\ spinners' = spinners \ {"OpPush"}
    /\ IF pushingRepoIdx >= 0
       THEN /\ dashboard' = ClearRepoPushing(dashboard, pushingRepoIdx)
            /\ pushingRepoIdx' = -1
       ELSE UNCHANGED <<dashboard, pushingRepoIdx>>
    /\ feedback' = "info"
    /\ UNCHANGED <<layout, overlays, activeView, showHelp, graphRepo,
                   conductorRepo, diffView>>

InitPush == \E c \in DiffConfigs : NewApp(c)

NextPush ==
    \/ WindowSize({<<100, 24>>})
    \/ StatusRefreshed({QuietSnapshot})
    \/ DashboardEnterProject
    \/ DashboardNextRepo
    \/ DashboardPush
    \/ spinnerTickMsg
    \/ PushCompleteMsg

SpecPush == InitPush /\ [][NextPush]_vars

\* C39: once the PushCompleteMsg of every started push has been handled, no
\* repo header is marked as pushing and the push loader is stopped.
NoPushMarkAfterCompletion ==
    (\A c \in pending : c.type # "PushCompleteMsg")
        => (dashboard.pushingRepos = {} /\ "OpPush" \notin spinners)

\* ---------------------------------------------------------------------------
\* Polling: the commands the program's Init and its poll tick return, kept in
\* pending until the runtime delivers their messages.

PollTickCmd == Msg("pollTickMsg", "", <<>>, "")

RefreshAllStatusCmd == Msg("StatusRefreshedMsg", "", <<>>, "")

\* The views on which a poll tick refreshes.
PollViews == {"DashboardView", "BranchPickerView"}

\* App.Init: the first status refresh and the first poll tick, asked for once,
\* in the state the constructor left.
AppInit ==
    /\ NewApp(cfg)
    /\ pending' = {RefreshAllStatusCmd, PollTickCmd}
    /\ UNCHANGED <<layout, cfg, dashboard, overlays, diffAndPush, activeView, showHelp,
                   feedback, graphRepo, conductorRepo>>

\* refreshConductorCmd of the poll tick: for the conductor repo, else for the
\* selected repo's project.
pollConductorCmds ==
    IF conductorRepo # ""
    THEN {Msg("conductorDataMsg", conductorRepo, <<>>, "")}
    ELSE IF SelectedRepoOk(dashboard)
    THEN {Msg("conductorDataMsg",
              conductorPathForActiveProject(dashboard, SelectedRepoPath(dashboard)),
              <<>>, "")}
    ELSE {}

\* A poll tick that asks for the next tick on the refreshing views only.
pollTickOnPollViewsOnly ==
    /\ ~crashed
    /\ PollTickCmd \in pending
    /\ feedback' \in (IF feedback = "info" THEN {"info", "none"} ELSE {feedback})
    /\ pending' = IF activeView \in PollViews
                  THEN pending \cup {RefreshAllStatusCmd} \cup pollConductorCmds
                  ELSE pending \ {PollTickCmd}
    /\ UNCHANGED <<layout, cfg, dashboard, overlays, diffAndPush, activeView, showHelp,
                   graphRepo, conductorRepo>>

\* pollTickMsg with the commands it returns: the delivered tick leaves
\* pending, the next tick is asked for on every view, the status and
\* conductor refreshes on the dashboard and branch picker views only.
pollTick ==
    /\ ~crashed
    /\ PollTickCmd \in pending
    /\ feedback' \in (IF feedback = "info" THEN {"info", "none"} ELSE {feedback})
    /\ pending' = IF activeView \in PollViews
                  THEN ((pending \ {PollTickCmd})
                           \cup {RefreshAllStatusCmd, PollTickCmd}) \cup pollConductorCmds
                  ELSE (pending \ {PollTickCmd}) \cup {PollTickCmd}
    /\ UNCHANGED <<layout, cfg, dashboard, overlays, diffAndPush, activeView, showHelp,
                   graphRepo, conductorRepo>>

\* StatusRefreshedMsg delivered for a refresh that Init or a poll tick asked
\* for.
PolledStatusRefreshed(snaps) ==
    /\ ~crashed
    /\ RefreshAllStatusCmd \in pending
    /\ \E snap \in snaps :
          dashboard' = dashboardSetRepos(dashboard, RepoStatuses(cfg, snap))
    /\ LET r == maybeRefreshGraph(dashboard', graphPane, cfg, showGraph, focusPanel,
                                  graphRepo, conductorRepo)
       IN  /\ graphRepo' = r.graphRepo
           /\ conductorRepo' = r.conductorRepo
           /\ pending' = (pending \ {RefreshAllStatusCmd}) \cup r.cmds
    /\ feedback' \in (IF feedback = "info" THEN {"info", "none"} ELSE {feedback})
    /\ UNCHANGED <<cfg, conductorPane, graphPane, overlays, diffAndPush, activeView,
                   showHelp, showGraph, showConductor, graphFocused, focusPanel,
                   lastDetailHash, width, height, crashed>>

InitPoll == \E c \in OverlayConfigs : NewApp(c)

NextPoll ==
    \/ AppInit
    \/ WindowSize({<<100, 24>>})
    \/ pollTick
    \/ PolledStatusRefreshed({QuietSnapshot, StagedSnapshot})
    \/ conductorDataMsg
    \/ DashboardEnterProject
    \/ DashboardEscape
    \/ DashboardProjectManager
    \/ ProjectManagerKeyIn({"esc", "j"})
    \/ DashboardBranch
    \/ BranchesFetchedMsg
    \/ BranchPickerKeyIn({"esc", "j"})
    \/ CloseBranchPickerMsg

SpecPoll == InitPoll /\ [][NextPoll]_vars

\* C40: a handled poll tick always leaves the next poll tick asked for,
\* whatever the active view; it asks for a status refresh only on the
\* dashboard and branch picker views, and on any other view it asks for
\* nothing but the next tick.
PollingGoesOn ==
    [][(/\ PollTickCmd \in pending'
        /\ (RefreshAllStatusCmd \in pending' /\ RefreshAllStatusCmd \notin pending)
              => activeView \in PollViews
        /\ activeView \notin PollViews => pending' = pending)
       \/ ~pollTick]_vars

\* The poll tick is due while the project manager is shown and no refresh is
\* under way.
PollDueInProjectManager ==
    /\ activeView = "ProjectManagerView"
    /\ PollTickCmd \in pending
    /\ RefreshAllStatusCmd \notin pending

====
